---------------------------- MODULE Spec2Model ----------------------------
(***************************************************************************)
(* ProfitLens: the data hook (useSupabaseData) over the DatabaseService   *)
(* store.  The store is the record db, one field per SQL table; the hook's *)
(* React state is one variable per useState cell.  Every hook entry point  *)
(* is one action: its store calls in program order, the store's answer to  *)
(* each call, and the trailing loadAllData.                                *)
(*                                                                         *)
(* Numbers are integers (prices, quantities, stock); a percentage is the   *)
(* exact fraction num/den, so comparisons of margins are exact.            *)
(***************************************************************************)
EXTENDS Integers, Sequences, FiniteSets, Bags, TLC

(***************************************************************************)
(* Bounds of the model.                                                    *)
(***************************************************************************)
MaxStock == 2          \* stock levels range over 0..MaxStock (and -1 as an input)
MaxSold == 2           \* units of one menu item sold in one batch
MaxSalesRecords == 2   \* rows of sales_history
MaxWasteRecords == 1   \* rows of waste_records
MaxOrders == 1         \* rows of pending_orders
MaxCampaignRows == 2   \* rows of active_campaigns
MaxPrice == 2          \* ingredient prices range over 0..MaxPrice
MaxDay == 1            \* the clock runs from day 0 to day MaxDay
MaxHideTimers == 4     \* hide timers of ConnectionStatus pending at a time

OutletIds == {1, 2, 3}
IngredientIds == {1, 2, 3}
MenuIds == {1, 2}
WasteIds == {1, 2, 3}
OrderIds == {1, 2, 3}
CostIds == {1, 2}
CampaignNames == {"c1", "c2"}
SupplierIds == {1, 2}

\* currentOutletId's initial value, the empty string (useState<string>(''))
NoOutlet == 0
\* a NULL column / an undefined or null field
Undefined == -1

VARIABLES
  db,                  \* the store: one field per table
  outlets,             \* in-memory snapshot (useState cells of the hook)
  currentOutletId,
  allIngredients,
  menuItemsData,
  recipes,
  allSalesHistory,
  allOperationalCosts,
  allWasteHistory,
  allPendingOrders,
  suppliers,
  activeCampaign,
  loading,
  today,               \* the calendar day of "new Date()"
  timeOfDay,           \* the time of day of "new Date()": 0 is midnight UTC sharp
  dateRange,           \* the window length W of the dashboard, in days
  readNotifications,   \* ids of the notifications marked as read
  navigatorOnLine,     \* the browser's navigator.onLine
  isOnline,            \* ConnectionStatus: useState cells
  showStatus,
  hideTimers,          \* ConnectionStatus: pending setTimeout callbacks, by seconds left
  ret                  \* the last entry point called and how it ended

memVars == <<outlets, currentOutletId, allIngredients, menuItemsData, recipes,
             allSalesHistory, allOperationalCosts, allWasteHistory,
             allPendingOrders, suppliers, activeCampaign>>
connVars == <<navigatorOnLine, isOnline, showStatus, hideTimers>>
uiVars == <<dateRange, readNotifications, connVars>>
vars == <<db, memVars, loading, today, timeOfDay, uiVars, ret>>

\* instants are counted in ticks; a calendar day has TicksPerDay of them
TicksPerDay == 2
\* new Date(): the present instant
Now == today * TicksPerDay + timeOfDay
\* new Date("YYYY-MM-DD"): midnight UTC of that calendar day
DateInstant(date) == date * TicksPerDay
\* an awaited store call returns later than the instant that issued it
StoreTime == IF timeOfDay = 0 THEN 1 ELSE timeOfDay

(***************************************************************************)
(* Small helpers.                                                          *)
(***************************************************************************)
Max(a, b) == IF a >= b THEN a ELSE b

RECURSIVE SumOver(_, _)
\* the sum of f[x] over the finite set S
SumOver(S, f) ==
  IF S = {} THEN 0
  ELSE LET x == CHOOSE y \in S : TRUE IN f[x] + SumOver(S \ {x}, f)

RECURSIVE SeqSum(_)
SeqSum(s) == IF s = <<>> THEN 0 ELSE Head(s) + SeqSum(Tail(s))

\* the elements of a set of integers, ascending
RECURSIVE Ascending(_)
Ascending(S) ==
  IF S = {} THEN <<>>
  ELSE LET m == CHOOSE x \in S : \A y \in S : x <= y
       IN <<m>> \o Ascending(S \ {m})

Range(s) == {s[k] : k \in DOMAIN s}

\* number of rows of a bag
BagSize(b) == BagCardinality(b)

(***************************************************************************)
(* The store (Supabase tables).  Rows carry the columns the hook reads.    *)
(***************************************************************************)
EmptyDb ==
  [outlets |-> <<>>,                 \* rows in created_at order
   ingredients |-> {},
   menu_items |-> {},
   recipes |-> {},
   sales_history |-> EmptyBag,
   operational_costs |-> {},
   waste_records |-> {},
   pending_orders |-> {},
   suppliers |-> {},
   active_campaigns |-> <<>>]        \* rows in start_date order, oldest first

HasIngredient(d, id) == \E r \in d.ingredients : r.id = id
IngredientRow(d, id) == CHOOSE r \in d.ingredients : r.id = id

\* ON DELETE CASCADE of the schema
CascadeIngredient(d, id) ==
  [d EXCEPT !.ingredients = {r \in @ : r.id # id},
            !.recipes = {r \in @ : r.ingredient_id # id},
            !.waste_records = {r \in @ : r.ingredient_id # id}]

CascadeMenuItem(d, id) ==
  [d EXCEPT !.menu_items = {r \in @ : r.id # id},
            !.recipes = {r \in @ : r.menu_item_id # id},
            !.sales_history =
               [r \in {x \in DOMAIN @ : x.menu_item_id # id} |-> @[r]]]

CascadeOutlet(d, id) ==
  LET gone == {r.id : r \in {x \in d.ingredients : x.outlet_id = id}}
  IN [d EXCEPT !.outlets = SelectSeq(@, LAMBDA o : o.id # id),
               !.ingredients = {r \in @ : r.outlet_id # id},
               !.recipes = {r \in @ : r.ingredient_id \notin gone},
               !.sales_history =
                  [r \in {x \in DOMAIN @ : x.outlet_id # id} |-> @[r]],
               !.operational_costs = {r \in @ : r.outlet_id # id},
               !.waste_records = {r \in @ : r.outlet_id # id},
               !.pending_orders = {r \in @ : r.outlet_id # id}]


(***************************************************************************)
(* DatabaseService reads: a table's rows as the records the hook keeps.    *)
(***************************************************************************)
\* item.previous_price ? parseFloat(item.previous_price) : undefined
ReadPreviousPrice(v) == IF v = Undefined \/ v = 0 THEN Undefined ELSE v

ToIngredient(r) ==
  [id |-> r.id, outletId |-> r.outlet_id, price |-> r.price,
   previousPrice |-> ReadPreviousPrice(r.previous_price),
   stockLevel |-> r.stock_level, reorderPoint |-> r.reorder_point]

getOutlets(d) == d.outlets
getIngredients(d) == {ToIngredient(r) : r \in d.ingredients}
getMenuItems(d) ==
  {[id |-> r.id, name |-> r.name, sellingPrice |-> r.selling_price,
    targetMargin |-> r.target_margin] : r \in d.menu_items}
getRecipes(d) ==
  {[menuItemId |-> r.menu_item_id, ingredientId |-> r.ingredient_id,
    quantity |-> r.quantity] : r \in d.recipes}
ToSale(r) ==
  [date |-> r.date, menuItemId |-> r.menu_item_id,
   quantitySold |-> r.quantity_sold, totalRevenue |-> r.total_revenue,
   outletId |-> r.outlet_id]
getSalesHistory(d) ==
  LET rows == DOMAIN d.sales_history
      kinds == {ToSale(r) : r \in rows}
  IN [s \in kinds |->
        SumOver({r \in rows : ToSale(r) = s}, d.sales_history)]
getOperationalCosts(d) ==
  {[id |-> r.id, amount |-> r.amount, interval |-> r.interval,
    outletId |-> r.outlet_id] : r \in d.operational_costs}
\* (mutant) a record's cost is derived again from the ingredient's price
getWasteRecords_CurrentPrice(d) ==
  {[id |-> r.id, date |-> r.date, ingredientId |-> r.ingredient_id,
    quantity |-> r.quantity, cost |-> IngredientRow(d, r.ingredient_id).price * r.quantity,
    outletId |-> r.outlet_id]
     : r \in d.waste_records}

getWasteRecords(d) ==
  {[id |-> r.id, date |-> r.date, ingredientId |-> r.ingredient_id,
    quantity |-> r.quantity, cost |-> r.cost, outletId |-> r.outlet_id]
     : r \in d.waste_records}
getPendingOrders(d) ==
  {[id |-> r.id, items |-> r.items, outletId |-> r.outlet_id]
     : r \in d.pending_orders}
getSuppliers(d) == d.suppliers
\* .order('start_date', {ascending: false}).limit(1).maybeSingle()
getActiveCampaign(d) ==
  IF d.active_campaigns = <<>> THEN <<>>
  ELSE LET r == d.active_campaigns[Len(d.active_campaigns)]
       IN <<[campaignName |-> r.campaign_name,
             involvedItems |-> [item1Name |-> r.item1_name,
                                item2Name |-> r.item2_name],
             startDate |-> r.start_date]>>

(***************************************************************************)
(* A store call is named <<label, key>>; F is the set of calls the store   *)
(* answers with an error.                                                  *)
(***************************************************************************)
\* "reload" stands for some read of the snapshot, left unnamed
ReloadCall == <<"reload", 0>>

\* the eleven reads of Promise.all
Reads ==
  {"getOutlets", "getIngredients", "getMenuItems", "getRecipes", "getSalesHistory",
   "getOperationalCosts", "getWasteRecords", "getPendingOrders", "getSuppliers",
   "getSupplierPrices", "getActiveCampaign"}
ReadCall(name) == <<name, 0>>

\* Promise.all rejects: one of the reads is answered with an error
ReloadFails(F) == ReloadCall \in F \/ \E name \in Reads : ReadCall(name) \in F

\* (mutant) every read is settled on its own: a collection is replaced when
\* its read succeeded
LoadAllData_Settled(d, F) ==
  LET ok(name) == ReloadCall \notin F /\ ReadCall(name) \notin F
  IN /\ loading' = FALSE
     /\ outlets' = IF ok("getOutlets") THEN getOutlets(d) ELSE outlets
     /\ currentOutletId' =
          IF ok("getOutlets") /\ Len(getOutlets(d)) > 0 /\ currentOutletId = NoOutlet
          THEN getOutlets(d)[1].id
          ELSE currentOutletId
     /\ allIngredients' = IF ok("getIngredients") THEN getIngredients(d) ELSE allIngredients
     /\ menuItemsData' = IF ok("getMenuItems") THEN getMenuItems(d) ELSE menuItemsData
     /\ recipes' = IF ok("getRecipes") THEN getRecipes(d) ELSE recipes
     /\ allSalesHistory' = IF ok("getSalesHistory") THEN getSalesHistory(d) ELSE allSalesHistory
     /\ allOperationalCosts' =
          IF ok("getOperationalCosts") THEN getOperationalCosts(d) ELSE allOperationalCosts
     /\ allWasteHistory' = IF ok("getWasteRecords") THEN getWasteRecords(d) ELSE allWasteHistory
     /\ allPendingOrders' = IF ok("getPendingOrders") THEN getPendingOrders(d) ELSE allPendingOrders
     /\ suppliers' = IF ok("getSuppliers") THEN getSuppliers(d) ELSE suppliers
     /\ activeCampaign' = IF ok("getActiveCampaign") THEN getActiveCampaign(d) ELSE activeCampaign

\* loadAllData: the eleven reads succeed together, or none of the setters
\* runs; the error is caught and logged, and loading returns to false.
LoadAllData(d, F) ==
  /\ loading' = FALSE
  /\ IF ReloadFails(F)
     THEN UNCHANGED memVars
     ELSE /\ outlets' = getOutlets(d)
          /\ currentOutletId' =
               IF Len(getOutlets(d)) > 0 /\ currentOutletId = NoOutlet
               THEN getOutlets(d)[1].id
               ELSE currentOutletId
          /\ allIngredients' = getIngredients(d)
          /\ menuItemsData' = getMenuItems(d)
          /\ recipes' = getRecipes(d)
          /\ allSalesHistory' = getSalesHistory(d)
          /\ allOperationalCosts' = getOperationalCosts(d)
          /\ allWasteHistory' = getWasteRecords(d)
          /\ allPendingOrders' = getPendingOrders(d)
          /\ suppliers' = getSuppliers(d)
          /\ activeCampaign' = getActiveCampaign(d)

(***************************************************************************)
(* The outlet-scoped view and the costed menu (useMemo cells).             *)
(***************************************************************************)
ingredients == {i \in allIngredients : i.outletId = currentOutletId}
\* (mutant) the pending orders of every outlet
pendingOrders_AllOutlets == allPendingOrders

pendingOrders == {p \in allPendingOrders : p.outletId = currentOutletId}

\* the recipe of a menu item: its components
RecipeOf(id) ==
  {[ingredientId |-> r.ingredientId, quantity |-> r.quantity]
     : r \in {x \in recipes : x.menuItemId = id}}

\* (mutant) the ingredient is looked up among the ingredients of every outlet
ComponentCost_AllOutlets(c) ==
  IF \E i \in allIngredients : i.id = c.ingredientId
  THEN (CHOOSE i \in allIngredients : i.id = c.ingredientId).price * c.quantity
  ELSE 0

\* ingredient ? ingredient.price * component.quantity : 0
ComponentCost(c) ==
  IF \E i \in ingredients : i.id = c.ingredientId
  THEN (CHOOSE i \in ingredients : i.id = c.ingredientId).price * c.quantity
  ELSE 0

cogs(recipe) == SumOver(recipe, [c \in recipe |-> ComponentCost(c)])

\* (mutant) the margin is computed whatever the selling price
actualMargin_Unguarded(item, cost) ==
  [num |-> (item.sellingPrice - cost) * 100, den |-> item.sellingPrice]

\* sellingPrice > 0 ? ((sellingPrice - cogs) / sellingPrice) * 100 : 0
actualMargin(item, cost) ==
  IF item.sellingPrice > 0
  THEN [num |-> (item.sellingPrice - cost) * 100, den |-> item.sellingPrice]
  ELSE [num |-> 0, den |-> 1]

\* actualMargin - item.targetMargin
marginDifference(margin, target) ==
  [num |-> margin.num - target * margin.den, den |-> margin.den]

\* (mutant) the lower edge of Warning is exclusive
marginStatus_Strict(diff) ==
  IF diff.num < 0 /\ diff.num > -10 * diff.den THEN "Warning"
  ELSE IF diff.num <= -10 * diff.den THEN "Danger"
  ELSE "Safe"

\* Safe unless marginDifference < 0 && >= -10 (Warning) or < -10 (Danger)
marginStatus(diff) ==
  IF diff.num < 0 /\ diff.num >= -10 * diff.den THEN "Warning"
  ELSE IF diff.num < -10 * diff.den THEN "Danger"
  ELSE "Safe"

CostedItem(item) ==
  LET recipe == RecipeOf(item.id)
      cost == cogs(recipe)
      margin == actualMargin(item, cost)
  IN [id |-> item.id, name |-> item.name, sellingPrice |-> item.sellingPrice,
      targetMargin |-> item.targetMargin, recipe |-> recipe, cogs |-> cost,
      actualMargin |-> margin,
      marginStatus |-> marginStatus(marginDifference(margin, item.targetMargin))]

menuItems == {CostedItem(item) : item \in menuItemsData}

(***************************************************************************)
(* The statements of the dashboard (useMemo cells and calculateProfitLoss).*)
(* They are described as computed at the present instant.  Money is exact; *)
(* a quantity that divides is a fraction [num, den].                       *)
(***************************************************************************)
salesHistory ==
  [s \in {x \in DOMAIN allSalesHistory : x.outletId = currentOutletId} |-> allSalesHistory[s]]
operationalCosts == {c \in allOperationalCosts : c.outletId = currentOutletId}
wasteHistory == {w \in allWasteHistory : w.outletId = currentOutletId}

\* d = new Date(); d.setDate(d.getDate() - days)
DaysAgo(days) == Now - days * TicksPerDay

\* the sum of f[r] over the records of a bag, each as often as it occurs
BagSum(b, f) == SumOver(DOMAIN b, [r \in DOMAIN b |-> f[r] * b[r]])

\* (mutant) the waste of the period is left out of the net profit
netProfit_WithoutWaste(grossProfit, totalOperationalCost, totalWasteCost) ==
  [num |-> totalOperationalCost.den * grossProfit - totalOperationalCost.num,
   den |-> totalOperationalCost.den]

\* grossProfit - totalOperationalCost - totalWasteCost
netProfit(grossProfit, totalOperationalCost, totalWasteCost) ==
  [num |-> totalOperationalCost.den * (grossProfit - totalWasteCost) - totalOperationalCost.num,
   den |-> totalOperationalCost.den]

\* the sum over the costs of dailyCost * periodDays, dailyCost being
\* amount / 30 for a monthly cost
totalOperationalCost(costs, periodDays) ==
  [num |-> SumOver(costs, [c \in costs |->
                     (IF c.interval = "monthly" THEN c.amount ELSE 30 * c.amount) * periodDays]),
   den |-> 30]

calculateProfitLoss(periodDays, sales, items, costs, waste) ==
  LET cutoffDate == DaysAgo(periodDays)
      relevantSales == [r \in {x \in DOMAIN sales : DateInstant(x.date) >= cutoffDate} |-> sales[r]]
      relevantWaste == {r \in waste : DateInstant(r.date) >= cutoffDate}
      \* if (menuItem) { totalRevenue += ...; totalCogs += ... }
      counted == [r \in {x \in DOMAIN relevantSales : \E i \in items : i.id = x.menuItemId}
                    |-> relevantSales[r]]
      menuItem(r) == CHOOSE i \in items : i.id = r.menuItemId
      totalRevenue == BagSum(counted, [r \in DOMAIN counted |-> r.totalRevenue])
      totalCogs == BagSum(counted, [r \in DOMAIN counted |-> menuItem(r).cogs * r.quantitySold])
      operational == totalOperationalCost(costs, periodDays)
      totalWasteCost == SumOver(relevantWaste, [r \in relevantWaste |-> r.cost])
      grossProfit == totalRevenue - totalCogs
      net == netProfit(grossProfit, operational, totalWasteCost)
  IN [periodDays |-> periodDays, totalRevenue |-> totalRevenue, totalCogs |-> totalCogs,
      grossProfit |-> grossProfit, totalOperationalCost |-> operational,
      totalWasteCost |-> totalWasteCost, netProfit |-> net,
      grossProfitMargin |-> IF totalRevenue > 0
                            THEN [num |-> grossProfit * 100, den |-> totalRevenue]
                            ELSE [num |-> 0, den |-> 1],
      netProfitMargin |-> IF totalRevenue > 0
                          THEN [num |-> net.num * 100, den |-> net.den * totalRevenue]
                          ELSE [num |-> 0, den |-> 1]]

profitLossStats ==
  calculateProfitLoss(dateRange, salesHistory, menuItems, operationalCosts, wasteHistory)

\* salesHistory.filter(record => new Date(record.date) >= cutoffDate)
salesHistoryForRange ==
  [r \in {x \in DOMAIN salesHistory : DateInstant(x.date) >= DaysAgo(dateRange)} |-> salesHistory[r]]

\* ingredients.filter(ing => ing.stockLevel <= ing.reorderPoint).length
lowStockCount == Cardinality({ing \in ingredients : ing.stockLevel <= ing.reorderPoint})

dashboardStats ==
  [totalRevenue |-> BagSum(salesHistoryForRange,
                           [r \in DOMAIN salesHistoryForRange |-> r.totalRevenue]),
   netProfit |-> profitLossStats.netProfit,
   lowStockCount |-> lowStockCount,
   totalItemsSold |-> BagSum(salesHistoryForRange,
                             [r \in DOMAIN salesHistoryForRange |-> r.quantitySold])]

\* date.toISOString().split('T')[0]: the calendar day (UTC) of an instant
DateOf(instant) == instant \div TicksPerDay

\* the records of a bag of sales dated from an instant on and before another
SalesBetween(sales, start, end) ==
  [r \in {x \in DOMAIN sales : DateInstant(x.date) >= start /\ DateInstant(x.date) < end}
     |-> sales[r]]

\* data[dateString] = 0 for each day, then data[record.date] += totalRevenue
\* for each record whose date is one of the days; Object.values(data)
DailyTotals(sales, days) ==
  [k \in 1..Len(days) |->
     LET ofDay == [r \in {x \in DOMAIN sales : x.date = days[k]} |-> sales[r]]
     IN BagSum(ofDay, [r \in DOMAIN ofDay |-> r.totalRevenue])]

chartData ==
  LET labels == [k \in 1..dateRange |-> DateOf(DaysAgo(dateRange - k))]
  IN [labels |-> labels, data |-> DailyTotals(salesHistoryForRange, labels)]

comparisonChartData ==
  LET endDate == DaysAgo(dateRange)
      startDate == DaysAgo(dateRange * 2)
      salesForComparisonRange == SalesBetween(salesHistory, startDate, endDate)
      days == [k \in 1..dateRange |-> DateOf(DaysAgo(dateRange + (dateRange - k)))]
  IN [data |-> DailyTotals(salesForComparisonRange, days)]

(***************************************************************************)
(* Price alerts and notifications.  An ingredient's name is its row's     *)
(* name column; the rows here are named after their ids, so that the store *)
(* returns them (ORDER BY name) in ascending id.                           *)
(***************************************************************************)
IngredientName(id) == id

\* Math.round of a fraction that is not negative: floor(x + 0.5)
MathRound(x) == (2 * x.num + x.den) \div (2 * x.den)

\* ((ing.price - ing.previousPrice) / ing.previousPrice) * 100
priceIncreasePercent(ing) ==
  [num |-> (ing.price - ing.previousPrice) * 100, den |-> ing.previousPrice]

\* (mutant) an increase of exactly 10 percent counts as a spike
IsPriceSpike_Inclusive(ing) ==
  /\ ing.previousPrice # Undefined /\ ing.previousPrice # 0
  /\ ing.price > ing.previousPrice
  /\ priceIncreasePercent(ing).num >= 10 * priceIncreasePercent(ing).den

\* ing.previousPrice && ing.price > ing.previousPrice && priceIncreasePercent > 10
IsPriceSpike(ing) ==
  /\ ing.previousPrice # Undefined /\ ing.previousPrice # 0
  /\ ing.price > ing.previousPrice
  /\ priceIncreasePercent(ing).num > 10 * priceIncreasePercent(ing).den

\* menuItems.filter(m => m.recipe.some(r => r.ingredientId === ing.id)).map(m => m.name)
affectedMenus(ing) ==
  {m.name : m \in {x \in menuItems : \E r \in x.recipe : r.ingredientId = ing.id}}

\* the alerts, in the order of the ingredients
marginAlerts ==
  LET alerting == {ing \in ingredients : IsPriceSpike(ing) /\ affectedMenus(ing) # {}}
      order == Ascending({ing.id : ing \in alerting})
  IN [k \in 1..Len(order) |->
        LET ing == CHOOSE i \in alerting : i.id = order[k]
        IN [ingredientName |-> IngredientName(ing.id),
            priceIncreasePercent |-> MathRound(priceIncreasePercent(ing)),
            affectedMenus |-> affectedMenus(ing)]]

\* (mutant) an ingredient exactly at its reorder point is not counted
inventoryLowStockCount_Strict ==
  Cardinality({ing \in ingredients : ing.stockLevel < ing.reorderPoint})

\* ingredients.filter(ing => ing.stockLevel <= ing.reorderPoint).length
inventoryLowStockCount ==
  Cardinality({ing \in ingredients : ing.stockLevel <= ing.reorderPoint})

inventoryOverviewStats ==
  LET thirtyDaysAgo == DaysAgo(30)
      recentWaste == {w \in wasteHistory : DateInstant(w.date) >= thirtyDaysAgo}
  IN [totalItems |-> Cardinality(ingredients),
      lowStockCount |-> inventoryLowStockCount,
      totalStockValue |-> SumOver(ingredients, [ing \in ingredients |-> ing.price * ing.stockLevel]),
      totalWasteCostLast30Days |-> SumOver(recentWaste, [w \in recentWaste |-> w.cost])]

\* id: `lowstock-${ing.id}`, for every ingredient at or below its reorder point
lowStockNotifications ==
  {[id |-> <<"lowstock", ing.id>>, type |-> "low_stock"]
     : ing \in {x \in ingredients : x.stockLevel <= x.reorderPoint}}

\* id: `margin-${alert.ingredientName}-${index}`, index counting from 0
marginAlertNotifications ==
  {[id |-> <<"margin", marginAlerts[k].ingredientName, k - 1>>, type |-> "margin_alert"]
     : k \in DOMAIN marginAlerts}

\* allNotifications.map(n => ({...n, isRead: readNotifications.includes(n.id)}))
notifications ==
  {[id |-> n.id, type |-> n.type, isRead |-> n.id \in readNotifications]
     : n \in lowStockNotifications \cup marginAlertNotifications}

(***************************************************************************)
(* Campaign performance.  Averages are fractions [num, den].               *)
(***************************************************************************)
\* Math.ceil((now.getTime() - startDate.getTime()) / (1000 * 60 * 60 * 24))
daysRunning(startDate) == (Now - startDate + TicksPerDay - 1) \div TicksPerDay

\* (mutant) every item of the menu counts as involved
involvedItemIds_AllItems(campaign) == {m.id : m \in menuItems}

\* new Set(menuItems.filter(m => involvedItemsMap.has(m.name)).map(m => m.id))
involvedItemIds(campaign) ==
  {m.id : m \in {x \in menuItems :
                   x.name \in {campaign.involvedItems.item1Name,
                               campaign.involvedItems.item2Name}}}

\* reduce((sum, s) => sum + s.quantitySold, 0) over the records kept
UnitsSold(kept) == BagSum(kept, [r \in DOMAIN kept |-> r.quantitySold])

campaignPerformance ==
  IF activeCampaign = <<>> THEN <<>>
  ELSE LET campaign == activeCampaign[1]
           startDate == campaign.startDate
           days == daysRunning(startDate)
           divisor == IF days = 0 THEN 1 ELSE days
           involved == involvedItemIds(campaign)
           salesDuringCampaign ==
             [r \in {x \in DOMAIN allSalesHistory :
                       DateInstant(x.date) >= startDate /\ x.menuItemId \in involved}
                |-> allSalesHistory[r]]
           beforeStartDate == startDate - days * TicksPerDay
           salesBeforeCampaign ==
             [r \in {x \in DOMAIN allSalesHistory :
                       /\ DateInstant(x.date) >= beforeStartDate
                       /\ DateInstant(x.date) < startDate
                       /\ x.menuItemId \in involved}
                |-> allSalesHistory[r]]
           avgDailyUnitsDuring == [num |-> UnitsSold(salesDuringCampaign), den |-> divisor]
           avgDailyUnitsBefore == [num |-> UnitsSold(salesBeforeCampaign), den |-> divisor]
           percentageChange ==
             IF avgDailyUnitsBefore.num * avgDailyUnitsBefore.den > 0
             THEN [num |-> (avgDailyUnitsDuring.num * avgDailyUnitsBefore.den
                              - avgDailyUnitsBefore.num * avgDailyUnitsDuring.den)
                           * avgDailyUnitsBefore.den * 100,
                   den |-> avgDailyUnitsDuring.den * avgDailyUnitsBefore.den
                           * avgDailyUnitsBefore.num]
             ELSE IF avgDailyUnitsDuring.num * avgDailyUnitsDuring.den > 0
             THEN [num |-> 100, den |-> 1]
             ELSE [num |-> 0, den |-> 1]
       IN <<[daysRunning |-> days, percentageChange |-> percentageChange]>>

(***************************************************************************)
(* IEEE 754 doubles, for the one expression whose rounding a claim is      *)
(* about.  A positive double is [m2, m1, m0, e]: its 53-bit significand in *)
(* limbs of 17, 18 and 18 bits, and its exponent; its value is             *)
(* (m2 * 2^36 + m1 * 2^18 + m0) * 2^(e - 52).                              *)
(***************************************************************************)
LimbSize == 2^18

\* floor(log2(n)) for a positive integer below 2^30
IntegerExponent(n) == CHOOSE e \in 0..29 : 2^e <= n /\ n < 2^(e + 1)

\* floor(log2(a / b)) for small positive integers
BinaryExponent(a, b) ==
  CHOOSE e \in -12..17 : a * 2^12 >= b * 2^(e + 12) /\ a * 2^12 < b * 2^(e + 13)

\* the next double up
NextDouble(x) ==
  IF x.m0 + 1 < LimbSize THEN [x EXCEPT !.m0 = @ + 1]
  ELSE IF x.m1 + 1 < LimbSize THEN [x EXCEPT !.m0 = 0, !.m1 = @ + 1]
  ELSE IF x.m2 + 1 < 2^17 THEN [x EXCEPT !.m0 = 0, !.m1 = 0, !.m2 = @ + 1]
  ELSE [m2 |-> 2^16, m1 |-> 0, m0 |-> 0, e |-> x.e + 1]

\* round to nearest, ties to even: rest / unit is the fraction cut off
RoundToNearestEven(x, rest, unit) ==
  IF 2 * rest > unit \/ (2 * rest = unit /\ x.m0 % 2 = 1) THEN NextDouble(x) ELSE x

\* an integer 1 <= a < 2^17 as a double (exact)
DoubleOfInt(a) ==
  LET e == IntegerExponent(a)
  IN [m2 |-> a * 2^(16 - e), m1 |-> 0, m0 |-> 0, e |-> e]

\* a / b in double arithmetic, a and b small positive integers
DoubleDiv(a, b) ==
  LET e == BinaryExponent(a, b)
      top == a * 2^(16 - e)
      r2 == top % b
      r1 == (r2 * LimbSize) % b
      r0 == (r1 * LimbSize) % b
  IN RoundToNearestEven([m2 |-> top \div b, m1 |-> (r2 * LimbSize) \div b,
                         m0 |-> (r1 * LimbSize) \div b, e |-> e], r0, b)

\* x * p in double arithmetic, p a small positive integer
DoubleTimes(x, p) ==
  LET c0 == x.m0 * p
      c1 == x.m1 * p + (c0 \div LimbSize)
      c2 == x.m2 * p + (c1 \div LimbSize)
      l0 == c0 % LimbSize
      l1 == c1 % LimbSize
      d == IntegerExponent(c2) - 16
      cut == 2^d
  IN RoundToNearestEven(
       [m2 |-> c2 \div cut,
        m1 |-> (l1 \div cut) + (c2 % cut) * (LimbSize \div cut),
        m0 |-> (l0 \div cut) + (l1 % cut) * (LimbSize \div cut),
        e |-> x.e + d],
       l0 % cut, cut)

\* (cost.amount / 30) * periodDays of a monthly cost, as the double it is
monthlyCostOverPeriod(amount, periodDays) == DoubleTimes(DoubleDiv(amount, 30), periodDays)

(***************************************************************************)
(* DatabaseService writes.  A write is [call, kind, arg, swallow]: the     *)
(* store call's name, what it does, its argument, and whether the service  *)
(* drops the call's error (it awaits the call and never reads `error`).    *)
(***************************************************************************)
Write(call, kind, arg) == [call |-> call, kind |-> kind, arg |-> arg, swallow |-> FALSE]
Unchecked(call, kind, arg) == [call |-> call, kind |-> kind, arg |-> arg, swallow |-> TRUE]

HasOutletRow(d, id) == \E k \in DOMAIN d.outlets : d.outlets[k].id = id
HasMenuRow(d, id) == \E r \in d.menu_items : r.id = id

\* the id the store generates for a new row: one no row of the table uses
FreshId(universe, used) == CHOOSE x \in universe \ used : \A y \in universe \ used : x <= y

\* the store refuses the write: a foreign key without its row, or
\* .single() on an update that matches no row
Rejects(d, w) ==
  CASE w.kind = "setStock" -> ~HasIngredient(d, w.arg.id)
    [] w.kind = "setPrice" -> ~HasIngredient(d, w.arg.id)
    [] w.kind = "insertSale" ->
         ~HasOutletRow(d, w.arg.outlet_id) \/ ~HasMenuRow(d, w.arg.menu_item_id)
    [] w.kind = "insertWaste" ->
         ~HasOutletRow(d, w.arg.outlet_id) \/ ~HasIngredient(d, w.arg.ingredient_id)
    [] w.kind = "insertOrder" -> ~HasOutletRow(d, w.arg.outlet_id)
    [] w.kind = "insertIngredient" -> ~HasOutletRow(d, w.arg.outlet_id)
    [] w.kind = "insertRecipes" ->
         \/ \E r \in w.arg : ~HasIngredient(d, r.ingredient_id) \/ ~HasMenuRow(d, r.menu_item_id)
         \/ \E r \in w.arg, q \in d.recipes \cup w.arg :
               r # q /\ r.menu_item_id = q.menu_item_id /\ r.ingredient_id = q.ingredient_id
    [] w.kind = "insertCost" -> ~HasOutletRow(d, w.arg.outlet_id)
    [] w.kind = "renameOutlet" -> ~HasOutletRow(d, w.arg.id)
    [] OTHER -> FALSE

Apply(d, w) ==
  CASE w.kind = "setStock" ->
         [d EXCEPT !.ingredients =
            {IF r.id = w.arg.id THEN [r EXCEPT !.stock_level = w.arg.stock_level] ELSE r
               : r \in @}]
    [] w.kind = "setPrice" ->
         [d EXCEPT !.ingredients =
            {IF r.id = w.arg.id
             THEN [r EXCEPT !.previous_price = w.arg.previous_price, !.price = w.arg.price]
             ELSE r : r \in @}]
    [] w.kind = "insertSale" ->
         [d EXCEPT !.sales_history = @ (+) SetToBag({w.arg})]
    [] w.kind = "insertWaste" ->
         [d EXCEPT !.waste_records = @ \cup
            {[id |-> FreshId(WasteIds, {r.id : r \in d.waste_records}),
              outlet_id |-> w.arg.outlet_id, ingredient_id |-> w.arg.ingredient_id,
              date |-> w.arg.date, quantity |-> w.arg.quantity, cost |-> w.arg.cost]}]
    [] w.kind = "insertOrder" ->
         [d EXCEPT !.pending_orders = @ \cup
            {[id |-> FreshId(OrderIds, {r.id : r \in d.pending_orders}),
              outlet_id |-> w.arg.outlet_id, items |-> w.arg.items]}]
    [] w.kind = "deleteOrder" ->
         [d EXCEPT !.pending_orders = {r \in @ : r.id # w.arg}]
    [] w.kind = "insertIngredient" ->
         [d EXCEPT !.ingredients = @ \cup
            {[w.arg EXCEPT !.id = FreshId(IngredientIds, {r.id : r \in d.ingredients})]}]
    [] w.kind = "deleteIngredient" -> CascadeIngredient(d, w.arg)
    [] w.kind = "updateMenuItem" ->
         [d EXCEPT !.menu_items =
            {IF r.id = w.arg.id
             THEN [r EXCEPT !.name = w.arg.name, !.selling_price = w.arg.selling_price,
                            !.target_margin = w.arg.target_margin]
             ELSE r : r \in @}]
    [] w.kind = "setSellingPrice" ->
         [d EXCEPT !.menu_items =
            {IF r.id = w.arg.id THEN [r EXCEPT !.selling_price = w.arg.selling_price] ELSE r
               : r \in @}]
    [] w.kind = "insertCost" ->
         [d EXCEPT !.operational_costs = @ \cup
            {[w.arg EXCEPT !.id = FreshId(CostIds, {r.id : r \in d.operational_costs})]}]
    [] w.kind = "deleteCost" ->
         [d EXCEPT !.operational_costs = {r \in @ : r.id # w.arg}]
    [] w.kind = "deleteRecipes" ->
         [d EXCEPT !.recipes = {r \in @ : r.menu_item_id # w.arg}]
    [] w.kind = "insertRecipes" -> [d EXCEPT !.recipes = @ \cup w.arg]
    [] w.kind = "deleteMenuItem" -> CascadeMenuItem(d, w.arg)
    [] w.kind = "insertOutlet" ->
         [d EXCEPT !.outlets =
            Append(@, [id |-> FreshId(OutletIds, {d.outlets[k].id : k \in DOMAIN d.outlets}),
                       name |-> w.arg])]
    [] w.kind = "deleteOutlet" -> CascadeOutlet(d, w.arg)
    [] w.kind = "renameOutlet" ->
         [d EXCEPT !.outlets =
            [k \in DOMAIN @ |-> IF @[k].id = w.arg.id THEN [@[k] EXCEPT !.name = w.arg.name]
                                ELSE @[k]]]
    [] w.kind = "deleteCampaigns" -> [d EXCEPT !.active_campaigns = <<>>]
    [] w.kind = "insertCampaign" -> [d EXCEPT !.active_campaigns = Append(@, w.arg)]
    [] w.kind = "insertSupplier" ->
         [d EXCEPT !.suppliers = @ \cup
            {[id |-> FreshId(SupplierIds, {r.id : r \in d.suppliers}), name |-> w.arg.name]}]

RECURSIVE RunWrites(_, _, _)
\* the writes of one entry point in program order: [db, threw, err], the
\* store after them, whether one threw (the rest never ran), and whether the
\* store answered any of them with an error
RunWrites(d, ws, F) ==
  IF ws = <<>> THEN [db |-> d, threw |-> FALSE, err |-> FALSE]
  ELSE LET w == Head(ws)
           failed == w.call \in F \/ Rejects(d, w)
       IN IF failed /\ ~w.swallow THEN [db |-> d, threw |-> TRUE, err |-> TRUE]
          ELSE LET rest == RunWrites(IF failed THEN d ELSE Apply(d, w), Tail(ws), F)
               IN [rest EXCEPT !.err = @ \/ failed]

(***************************************************************************)
(* The shape of a mutation entry point: its writes, then loadAllData.      *)
(***************************************************************************)
\* op: the entry point; out: how it ended ("ok": resolved; "success": resolved
\* with {success: true}; "refused"; "skipped"; "threw": rejected with the
\* store's error);
\* err: the store answered one of its calls with an error; reloaded: it ran
\* loadAllData
Returned(op, out, err, reloaded) == [op |-> op, out |-> out, err |-> err, reloaded |-> reloaded]

\* await <writes>; await loadAllData(); return <out>
Mutation(op, ws, F, out) ==
  LET r == RunWrites(db, ws, F)
  IN /\ db' = r.db
     /\ today' = today
     /\ timeOfDay' = StoreTime
     /\ UNCHANGED uiVars
     /\ IF r.threw
        THEN /\ UNCHANGED <<memVars, loading>>
             /\ ret' = Returned(op, "threw", TRUE, FALSE)
        ELSE /\ LoadAllData(r.db, F)
             /\ ret' = Returned(op, out, r.err \/ ReloadFails(F), TRUE)

\* an early return: no store call at all ("skipped": it returns undefined;
\* "refused": it returns {success: false, message})
NoStoreCall(op, out) ==
  /\ UNCHANGED <<db, memVars, loading, today, timeOfDay, uiVars>>
  /\ ret' = Returned(op, out, FALSE, FALSE)

\* useEffect(() => { loadAllData(); }, [])
InitialLoad(F) ==
  /\ loading
  /\ LoadAllData(db, F)
  /\ UNCHANGED <<db, today, uiVars>>
  /\ timeOfDay' = StoreTime
  /\ ret' = Returned("loadAllData", "ok", ReloadFails(F), TRUE)

\* setCurrentOutletId, handed to the layout's outlet selector
SetCurrentOutletId(id) ==
  /\ ~loading
  /\ \E k \in DOMAIN outlets : outlets[k].id = id
  /\ currentOutletId' = id
  /\ UNCHANGED <<db, outlets, allIngredients, menuItemsData, recipes, allSalesHistory,
                 allOperationalCosts, allWasteHistory, allPendingOrders, suppliers,
                 activeCampaign, loading, today, timeOfDay, uiVars>>
  /\ ret' = Returned("setCurrentOutletId", "ok", FALSE, FALSE)

\* setDateRange, handed to the dashboard's range selector
setDateRange(days) ==
  /\ dateRange' = days
  /\ UNCHANGED <<db, memVars, loading, today, timeOfDay, readNotifications, connVars>>
  /\ ret' = Returned("setDateRange", "ok", FALSE, FALSE)

\* setReadNotifications(prev => [...new Set([...prev, ...ids])])
markNotificationsAsRead(ids) ==
  /\ readNotifications' = readNotifications \cup ids
  /\ UNCHANGED <<db, memVars, loading, today, timeOfDay, dateRange, connVars>>
  /\ ret' = Returned("markNotificationsAsRead", "ok", FALSE, FALSE)

\* time passes: one tick, over midnight into the next day after the last
\* tick of a day
ClockAdvance ==
  /\ today < MaxDay \/ timeOfDay + 1 < TicksPerDay
  /\ IF timeOfDay + 1 < TicksPerDay
     THEN timeOfDay' = timeOfDay + 1 /\ today' = today
     ELSE timeOfDay' = 0 /\ today' = today + 1
  /\ UNCHANGED <<db, memVars, loading, uiVars, ret>>

\* loadAllData while another session deletes menu item id: Promise.all sends
\* its reads as separate requests; the store answers the sales_history read
\* before the deletion (and its cascade) and the other reads after it
loadAllDataAcrossDelete(id) ==
  /\ ~loading
  /\ HasMenuRow(db, id)
  /\ db' = CascadeMenuItem(db, id)
  /\ outlets' = getOutlets(db')
  /\ currentOutletId' = currentOutletId
  /\ allIngredients' = getIngredients(db')
  /\ menuItemsData' = getMenuItems(db')
  /\ recipes' = getRecipes(db')
  /\ allSalesHistory' = getSalesHistory(db)
  /\ allOperationalCosts' = getOperationalCosts(db')
  /\ allWasteHistory' = getWasteRecords(db')
  /\ allPendingOrders' = getPendingOrders(db')
  /\ suppliers' = getSuppliers(db')
  /\ activeCampaign' = getActiveCampaign(db')
  /\ timeOfDay' = StoreTime
  /\ UNCHANGED <<loading, today, uiVars>>
  /\ ret' = Returned("loadAllData", "ok", FALSE, TRUE)

(***************************************************************************)
(* Stock: sales, waste, order receipt, manual stock entry.                 *)
(***************************************************************************)
SalesInputs == [MenuIds -> 0..MaxSold]

\* the menu items of a batch with soldCount > 0, in the order of menuItems
SoldItems(sales) == Ascending({m.id : m \in {x \in menuItems : sales[x.id] > 0}})

MenuItemById(id) == CHOOSE m \in menuItems : m.id = id

\* (mutant) the sold count is dropped from the consumption
Consumption_PerUnit(sales, ingredientId) ==
  LET sold == {m \in menuItems : sales[m.id] > 0}
      uses == {<<m, c>> \in UNION {{<<m, c>> : c \in m.recipe} : m \in sold}
                 : c.ingredientId = ingredientId}
  IN SumOver(uses, [u \in uses |-> u[2].quantity])

\* ingredientsToUpdate: what the batch consumes of an ingredient of the
\* selected outlet
Consumption(sales, ingredientId) ==
  LET sold == {m \in menuItems : sales[m.id] > 0}
      uses == {<<m, c>> \in UNION {{<<m, c>> : c \in m.recipe} : m \in sold}
                 : c.ingredientId = ingredientId}
  IN SumOver(uses, [u \in uses |-> u[2].quantity * sales[u[1].id]])

\* the keys of ingredientsToUpdate
ConsumedIngredients(sales) ==
  {i.id : i \in {x \in ingredients :
     \E m \in menuItems : sales[m.id] > 0 /\ \E c \in m.recipe : c.ingredientId = x.id}}

IngredientById(set, id) == CHOOSE i \in set : i.id = id

\* Math.max(0, ingredient.stockLevel - consumption)
StockAfterUse(stockLevel, used) == Max(0, stockLevel - used)

processDailySalesWrites(sales) ==
  LET sold == SoldItems(sales)
      used == Ascending(ConsumedIngredients(sales))
  IN [k \in 1..Len(sold) |->
        Write(<<"insertSale", sold[k]>>, "insertSale",
              [outlet_id |-> currentOutletId, menu_item_id |-> sold[k], date |-> today,
               quantity_sold |-> sales[sold[k]],
               total_revenue |-> sales[sold[k]] * MenuItemById(sold[k]).sellingPrice])]
     \o
     [k \in 1..Len(used) |->
        Write(<<"updateIngredient", used[k]>>, "setStock",
              [id |-> used[k],
               stock_level |-> StockAfterUse(IngredientById(ingredients, used[k]).stockLevel,
                                             Consumption(sales, used[k]))])]

processDailySales(sales, F) ==
  /\ ~loading
  /\ BagSize(db.sales_history) + Len(SoldItems(sales)) <= MaxSalesRecords
  /\ Mutation("processDailySales", processDailySalesWrites(sales), F, "ok")

addWasteRecord(ingredientId, quantity, F) ==
  /\ ~loading
  /\ IF ~\E i \in ingredients : i.id = ingredientId
     THEN NoStoreCall("addWasteRecord", "skipped")
     ELSE LET ingredient == IngredientById(ingredients, ingredientId)
          IN /\ Cardinality(db.waste_records) < MaxWasteRecords
             /\ Mutation("addWasteRecord",
               <<Write(<<"insertWaste", 0>>, "insertWaste",
                       [outlet_id |-> currentOutletId, ingredient_id |-> ingredientId,
                        date |-> today, quantity |-> quantity,
                        cost |-> ingredient.price * quantity]),
                 Write(<<"updateIngredient", ingredientId>>, "setStock",
                       [id |-> ingredientId,
                        stock_level |-> StockAfterUse(ingredient.stockLevel, quantity)])>>,
               F, "ok")

OrderItemSets ==
  {<<[ingredientId |-> i, quantityToOrder |-> 1]>> : i \in IngredientIds}
  \cup {<<[ingredientId |-> 1, quantityToOrder |-> 1],
          [ingredientId |-> i, quantityToOrder |-> 1]>> : i \in {1, 3}}

addPendingOrder(items, F) ==
  /\ ~loading
  /\ Cardinality(db.pending_orders) < MaxOrders
  /\ Mutation("addPendingOrder",
       <<Write(<<"insertOrder", 0>>, "insertOrder",
               [outlet_id |-> currentOutletId, items |-> items])>>, F, "ok")

\* (mutant) the map entry is overwritten instead of added to
OrderedQuantity_LastEntry(items, ingredientId) ==
  LET at == {k \in DOMAIN items : items[k].ingredientId = ingredientId}
  IN IF at = {} THEN 0 ELSE items[CHOOSE k \in at : \A j \in at : j <= k].quantityToOrder

\* updatedStockMap: the ordered quantity of each ingredient of the order
OrderedQuantity(items, ingredientId) ==
  SeqSum([k \in DOMAIN items |->
            IF items[k].ingredientId = ingredientId THEN items[k].quantityToOrder ELSE 0])

receiveStockWrites(order) ==
  LET listed == {order.items[k].ingredientId : k \in DOMAIN order.items}
      found == Ascending({id \in listed : \E i \in allIngredients : i.id = id})
  IN [k \in 1..Len(found) |->
        Write(<<"updateIngredient", found[k]>>, "setStock",
              [id |-> found[k],
               stock_level |-> IngredientById(allIngredients, found[k]).stockLevel
                                 + OrderedQuantity(order.items, found[k])])]
     \o <<Write(<<"deletePendingOrder", order.id>>, "deleteOrder", order.id)>>

receiveStock(orderId, F) ==
  /\ ~loading
  /\ IF ~\E o \in pendingOrders : o.id = orderId
     THEN NoStoreCall("receiveStock", "skipped")
     ELSE LET order == CHOOSE o \in pendingOrders : o.id = orderId
          IN /\ \A w \in Range(receiveStockWrites(order)) :
                   w.kind = "setStock" => w.arg.stock_level <= MaxStock
             /\ Mutation("receiveStock", receiveStockWrites(order), F, "ok")

updateIngredientStock(id, newStock, F) ==
  /\ ~loading
  /\ Mutation("updateIngredientStock",
       <<Write(<<"updateIngredient", id>>, "setStock", [id |-> id, stock_level |-> newStock])>>,
       F, "ok")

(***************************************************************************)
(* Ingredients, the menu and its recipes.                                  *)
(***************************************************************************)
\* the ingredient the form submits: price 1, stock MaxStock, reorder point 1
NewIngredient == [price |-> 1, previousPrice |-> Undefined, stockLevel |-> MaxStock, reorderPoint |-> 1]

\* addIngredient appends the stored row to allIngredients itself; it does
\* not call loadAllData
addIngredient(newIngredient, F) ==
  /\ ~loading
  /\ {r.id : r \in db.ingredients} # IngredientIds
  /\ LET r == RunWrites(db,
                <<Write(<<"insertIngredient", 0>>, "insertIngredient",
                        [id |-> 0, outlet_id |-> currentOutletId,
                         price |-> newIngredient.price,
                         previous_price |-> newIngredient.previousPrice,
                         stock_level |-> newIngredient.stockLevel,
                         reorder_point |-> newIngredient.reorderPoint])>>, F)
     IN /\ db' = r.db
        /\ UNCHANGED <<outlets, currentOutletId, menuItemsData, recipes, allSalesHistory,
                       allOperationalCosts, allWasteHistory, allPendingOrders,
                       suppliers, activeCampaign, loading, today, uiVars>>
        /\ timeOfDay' = StoreTime
        /\ IF r.threw
           THEN /\ allIngredients' = allIngredients
                /\ ret' = Returned("addIngredient", "threw", TRUE, FALSE)
           ELSE /\ allIngredients' = allIngredients \cup
                     {ToIngredient(row) : row \in r.db.ingredients \ db.ingredients}
                /\ ret' = Returned("addIngredient", "ok", FALSE, FALSE)

\* (mutant) the recipe check is skipped
IsUsedInRecipe_Never(id) == FALSE

\* recipes.some(r => r.ingredientId === id)
IsUsedInRecipe(id) == \E r \in recipes : r.ingredientId = id

deleteIngredient(id, F) ==
  /\ ~loading
  /\ IF IsUsedInRecipe(id)
     THEN NoStoreCall("deleteIngredient", "refused")
     ELSE Mutation("deleteIngredient",
            <<Write(<<"deleteIngredient", id>>, "deleteIngredient", id)>>, F, "success")

updateIngredientPrice(id, newPrice, F) ==
  /\ ~loading
  /\ IF ~\E i \in allIngredients : i.id = id
     THEN NoStoreCall("updateIngredientPrice", "skipped")
     ELSE Mutation("updateIngredientPrice",
            <<Write(<<"updateIngredient", id>>, "setPrice",
                    [id |-> id, previous_price |-> IngredientById(allIngredients, id).price,
                     price |-> newPrice])>>, F, "ok")

\* (mutant) the entries of ingredients of any outlet are written
updateIngredientPricesWrites_AnyOutlet(updatedPrices) ==
  LET kept == SelectSeq(updatedPrices, LAMBDA e : \E i \in allIngredients : i.id = e.id)
  IN [k \in 1..Len(kept) |->
        Write(<<"updateIngredient", kept[k].id>>, "setPrice",
              [id |-> kept[k].id,
               previous_price |-> IngredientById(allIngredients, kept[k].id).price,
               price |-> kept[k].price])]

\* for (const [id, price] of Object.entries(updatedPrices)): the entries, in
\* their order, of ingredients of the snapshot that belong to the selected
\* outlet
updateIngredientPricesWrites(updatedPrices) ==
  LET kept == SelectSeq(updatedPrices,
                LAMBDA e : \E i \in allIngredients :
                             i.id = e.id /\ i.outletId = currentOutletId)
  IN [k \in 1..Len(kept) |->
        Write(<<"updateIngredient", kept[k].id>>, "setPrice",
              [id |-> kept[k].id,
               previous_price |-> IngredientById(allIngredients, kept[k].id).price,
               price |-> kept[k].price])]

updateIngredientPrices(updatedPrices, F) ==
  /\ ~loading
  /\ Mutation("updateIngredientPrices", updateIngredientPricesWrites(updatedPrices), F, "ok")

\* DatabaseService.updateMenuItem with a recipe: update the row, delete the
\* item's recipe rows (the delete's error is never read), insert the new ones
updateMenuItemWrites(item) ==
  <<Write(<<"updateMenuItem", item.id>>, "updateMenuItem",
          [id |-> item.id, name |-> item.name, selling_price |-> item.sellingPrice,
           target_margin |-> item.targetMargin]),
    Unchecked(<<"deleteRecipes", item.id>>, "deleteRecipes", item.id)>>
  \o (IF item.recipe = {} THEN <<>>
      ELSE <<Write(<<"insertRecipes", item.id>>, "insertRecipes",
                   {[menu_item_id |-> item.id, ingredient_id |-> c.ingredientId,
                     quantity |-> c.quantity] : c \in item.recipe})>>)

updateMenuItem(item, F) ==
  /\ ~loading
  /\ Mutation("updateMenuItem", updateMenuItemWrites(item), F, "ok")

updateMenuItemPrice(id, newPrice, F) ==
  /\ ~loading
  /\ Mutation("updateMenuItemPrice",
       <<Write(<<"updateMenuItem", id>>, "setSellingPrice",
               [id |-> id, selling_price |-> newPrice])>>, F, "ok")

deleteMenuItem(id, F) ==
  /\ ~loading
  /\ Mutation("deleteMenuItem", <<Write(<<"deleteMenuItem", id>>, "deleteMenuItem", id)>>, F, "ok")

(***************************************************************************)
(* Operational costs, outlets, campaigns.                                  *)
(***************************************************************************)
addOperationalCost(cost, F) ==
  /\ ~loading
  /\ {r.id : r \in db.operational_costs} # CostIds
  /\ Mutation("addOperationalCost",
       <<Write(<<"insertCost", 0>>, "insertCost",
               [id |-> 0, outlet_id |-> currentOutletId, amount |-> cost.amount,
                interval |-> cost.interval])>>, F, "ok")

deleteOperationalCost(id, F) ==
  /\ ~loading
  /\ Mutation("deleteOperationalCost", <<Write(<<"deleteCost", id>>, "deleteCost", id)>>, F, "ok")

\* name.trim()
Trim(name) == IF name = " " THEN "" ELSE name

addOutlet(name, F) ==
  /\ ~loading
  /\ IF Trim(name) = ""
     THEN NoStoreCall("addOutlet", "skipped")
     ELSE /\ {db.outlets[k].id : k \in DOMAIN db.outlets} # OutletIds
          /\ Mutation("addOutlet",
               <<Write(<<"insertOutlet", 0>>, "insertOutlet", Trim(name))>>, F, "ok")

\* (mutant) the sales history is not consulted
HasData_NoSales(id) ==
  \/ \E i \in allIngredients : i.outletId = id
  \/ \E o \in allOperationalCosts : o.outletId = id

HasData(id) ==
  \/ \E i \in allIngredients : i.outletId = id
  \/ \E s \in DOMAIN allSalesHistory : s.outletId = id
  \/ \E o \in allOperationalCosts : o.outletId = id

updateOutlet(id, name, F) ==
  /\ ~loading
  /\ IF Trim(name) = ""
     THEN NoStoreCall("updateOutlet", "skipped")
     ELSE Mutation("updateOutlet",
            <<Write(<<"updateOutlet", id>>, "renameOutlet", [id |-> id, name |-> Trim(name)])>>,
            F, "ok")

\* (mutant) the selected outlet may be deleted
deleteOutlet_SelectedToo(id, F) ==
  /\ ~loading
  /\ IF Len(outlets) <= 1 \/ HasData(id)
     THEN NoStoreCall("deleteOutlet", "refused")
     ELSE Mutation("deleteOutlet", <<Write(<<"deleteOutlet", id>>, "deleteOutlet", id)>>,
                   F, "success")

deleteOutlet(id, F) ==
  /\ ~loading
  /\ IF Len(outlets) <= 1 \/ id = currentOutletId \/ HasData(id)
     THEN NoStoreCall("deleteOutlet", "refused")
     ELSE Mutation("deleteOutlet", <<Write(<<"deleteOutlet", id>>, "deleteOutlet", id)>>,
                   F, "success")

\* the two items a suggested campaign bundles: "c1" the two items of the
\* menu, "c2" one of them and an item that is not on the menu
SuggestedItems(name) ==
  IF name = "c1" THEN [item1Name |-> "m1", item2Name |-> "m2"]
  ELSE [item1Name |-> "m2", item2Name |-> "m3"]

CampaignRow(name) ==
  [campaign_name |-> name, item1_name |-> SuggestedItems(name).item1Name,
   item2_name |-> SuggestedItems(name).item2Name,
   start_date |-> today * TicksPerDay + StoreTime]

\* DatabaseService.launchCampaign: delete every row (the delete's error is
\* never read), then insert
launchCampaign(name, F) ==
  /\ ~loading
  /\ Len(db.active_campaigns) < MaxCampaignRows
  /\ Mutation("launchCampaign",
       <<Unchecked(<<"deleteCampaigns", 0>>, "deleteCampaigns", 0),
         Write(<<"insertCampaign", 0>>, "insertCampaign", CampaignRow(name))>>, F, "ok")

\* DatabaseService.endCampaign: the delete's error is never read
endCampaign(F) ==
  /\ ~loading
  /\ Mutation("endCampaign",
       <<Unchecked(<<"deleteCampaigns", 0>>, "deleteCampaigns", 0)>>, F, "ok")

\* DatabaseService.addSupplier, then the reload
addSupplier(supplier, F) ==
  /\ ~loading
  /\ Mutation("addSupplier",
       <<Write(<<"addSupplier", 0>>, "insertSupplier", supplier)>>, F, "ok")

(***************************************************************************)
(* Initial stores.  The hook starts empty and loading; the mount effect    *)
(* loads the snapshot.                                                     *)
(***************************************************************************)
\* setTimeout(..., 3000): the delay of a hide timer, in seconds
HideDelay == 3

\* ConnectionStatus once mounted: isOnline = navigator.onLine, showStatus =
\* false, the listeners attached and no timer pending
ConnectionStatusStart(online) ==
  /\ navigatorOnLine = online
  /\ isOnline = online
  /\ showStatus = FALSE
  /\ hideTimers = [r \in 0..HideDelay |-> 0]

\* the useState cells of useSupabaseData before the first load
HookCells ==
  /\ outlets = <<>>
  /\ currentOutletId = NoOutlet
  /\ allIngredients = {}
  /\ menuItemsData = {}
  /\ recipes = {}
  /\ allSalesHistory = EmptyBag
  /\ allOperationalCosts = {}
  /\ allWasteHistory = {}
  /\ allPendingOrders = {}
  /\ suppliers = {}
  /\ activeCampaign = <<>>
  /\ loading = TRUE
  /\ today = 0
  /\ timeOfDay = 0
  /\ dateRange = 30
  /\ readNotifications = {}
  /\ ret = Returned("useSupabaseData", "ok", FALSE, FALSE)

\* the page at start: the hook's cells, the browser online
HookStart ==
  /\ HookCells
  /\ ConnectionStatusStart(TRUE)

IngredientRowOf(id, outlet, price, stock) ==
  [id |-> id, outlet_id |-> outlet, price |-> price, previous_price |-> Undefined,
   stock_level |-> stock, reorder_point |-> 1]

\* two outlets; ingredients 1 and 2 belong to outlet 1, ingredient 3 to
\* outlet 2; menu item 1 uses ingredients 1 and 3, menu item 2 uses
\* ingredient 1 twice over; ingredient 2 is in no recipe
KitchenDb(stock) ==
  [EmptyDb EXCEPT
     !.outlets = <<[id |-> 1, name |-> "A"], [id |-> 2, name |-> "B"]>>,
     !.ingredients = {IngredientRowOf(1, 1, 1, stock[1]), IngredientRowOf(2, 1, 2, stock[2]),
                      IngredientRowOf(3, 2, 1, stock[3])},
     !.menu_items = {[id |-> 1, name |-> "m1", selling_price |-> 10, target_margin |-> 50],
                     [id |-> 2, name |-> "m2", selling_price |-> 20, target_margin |-> 50]},
     !.recipes = {[menu_item_id |-> 1, ingredient_id |-> 1, quantity |-> 1],
                  [menu_item_id |-> 1, ingredient_id |-> 3, quantity |-> 1],
                  [menu_item_id |-> 2, ingredient_id |-> 1, quantity |-> 2]}]

NoFailure == {}

(***************************************************************************)
(* SpecStock: the four stock-mutating entry points together, every store   *)
(* call answered.  Batches sell both items in the same number.             *)
(***************************************************************************)
InitStock ==
  /\ HookStart
  /\ db = KitchenDb([i \in IngredientIds |-> MaxStock])

EvenBatches == {sales \in SalesInputs : \A m \in MenuIds : sales[m] = sales[1]}
StockEntries == {-1, 0, MaxStock}
SingleItemOrders == {items \in OrderItemSets : Len(items) = 1 /\ items[1].ingredientId # 2}

NextStock ==
  \/ InitialLoad(NoFailure)
  \/ \E id \in OutletIds : SetCurrentOutletId(id)
  \/ \E sales \in EvenBatches : processDailySales(sales, NoFailure)
  \/ \E id \in IngredientIds : addWasteRecord(id, 2, NoFailure)
  \/ \E items \in SingleItemOrders : addPendingOrder(items, NoFailure)
  \/ \E id \in OrderIds : receiveStock(id, NoFailure)
  \/ \E id \in IngredientIds, n \in StockEntries : updateIngredientStock(id, n, NoFailure)

SpecStock == InitStock /\ [][NextStock]_vars

(***************************************************************************)
(* SpecSales: daily sales batches of every size against varying stock.     *)
(***************************************************************************)
NextSales ==
  \/ InitialLoad(NoFailure)
  \/ \E id \in OutletIds : SetCurrentOutletId(id)
  \/ \E sales \in SalesInputs : processDailySales(sales, NoFailure)
  \/ \E id \in IngredientIds, n \in {0, MaxStock} : updateIngredientStock(id, n, NoFailure)

SpecSales == InitStock /\ [][NextSales]_vars

(***************************************************************************)
(* SpecOrders: purchase orders placed and received.                        *)
(***************************************************************************)
InitOrders ==
  /\ HookStart
  /\ db = KitchenDb([i \in IngredientIds |-> 0])

NextOrders ==
  \/ InitialLoad(NoFailure)
  \/ \E id \in OutletIds : SetCurrentOutletId(id)
  \/ \E items \in OrderItemSets : addPendingOrder(items, NoFailure)
  \/ \E id \in OrderIds : receiveStock(id, NoFailure)
  \/ \E id \in IngredientIds : updateIngredientStock(id, 0, NoFailure)

SpecOrders == InitOrders /\ [][NextOrders]_vars

(***************************************************************************)
(* SpecRecipes: ingredients added and deleted while recipes are edited.    *)
(* The forms offer only ingredients of the snapshot for a recipe.          *)
(***************************************************************************)
RecipeChoices ==
  {{}} \cup {{[ingredientId |-> i, quantity |-> 1]} : i \in IngredientIds}
       \cup {{[ingredientId |-> 1, quantity |-> 1], [ingredientId |-> 3, quantity |-> 2]}}

MenuEdits ==
  {[id |-> m, name |-> IF m = 1 THEN "m1" ELSE "m2", sellingPrice |-> 10 * m,
    targetMargin |-> 50, recipe |-> r] : m \in MenuIds, r \in RecipeChoices}

OffersIngredients(item) ==
  \A c \in item.recipe : \E i \in allIngredients : i.id = c.ingredientId

NextRecipes ==
  \/ InitialLoad(NoFailure)
  \/ \E id \in OutletIds : SetCurrentOutletId(id)
  \/ addIngredient(NewIngredient, NoFailure)
  \/ \E id \in IngredientIds : deleteIngredient(id, NoFailure)
  \/ \E item \in MenuEdits : OffersIngredients(item) /\ updateMenuItem(item, NoFailure)
  \/ \E id \in MenuIds : deleteMenuItem(id, NoFailure)

SpecRecipes == InitStock /\ [][NextRecipes]_vars

(***************************************************************************)
(* SpecOutlets: outlets added and deleted while they gain and lose data:    *)
(* at most one ingredient, one cost and one sales row at a time.           *)
(***************************************************************************)
\* two outlets, no ingredient, one menu item without a recipe
BranchesDb ==
  [EmptyDb EXCEPT
     !.outlets = <<[id |-> 1, name |-> "A"], [id |-> 2, name |-> "B"]>>,
     !.menu_items = {[id |-> 1, name |-> "m1", selling_price |-> 10, target_margin |-> 50]}]

InitOutlets ==
  /\ HookStart
  /\ db = BranchesDb

OneSale == {sales \in SalesInputs : sales[1] = 1 /\ sales[2] = 0}
DailyCost == [amount |-> 1, interval |-> "daily"]

NextOutlets ==
  \/ InitialLoad(NoFailure)
  \/ \E id \in OutletIds : SetCurrentOutletId(id)
  \/ \E name \in {" ", "C"} : addOutlet(name, NoFailure)
  \/ \E id \in OutletIds : deleteOutlet(id, NoFailure)
  \/ db.ingredients = {} /\ addIngredient(NewIngredient, NoFailure)
  \/ \E id \in IngredientIds : deleteIngredient(id, NoFailure)
  \/ db.operational_costs = {} /\ addOperationalCost(DailyCost, NoFailure)
  \/ \E id \in CostIds : deleteOperationalCost(id, NoFailure)
  \/ \E sales \in OneSale : db.sales_history = EmptyBag /\ processDailySales(sales, NoFailure)

SpecOutlets == InitOutlets /\ [][NextOutlets]_vars

(***************************************************************************)
(* SpecFaults: the store may answer any call of an entry point with an     *)
(* error.                                                                  *)
(***************************************************************************)
CampaignCalls == {<<"deleteCampaigns", 0>>, <<"insertCampaign", 0>>, ReloadCall}
StockCalls == {<<"updateIngredient", 1>>, ReloadCall}

NextFaults ==
  \/ \E F \in SUBSET {ReloadCall} : InitialLoad(F)
  \/ \E name \in CampaignNames, F \in SUBSET CampaignCalls : launchCampaign(name, F)
  \/ \E F \in SUBSET CampaignCalls : endCampaign(F)
  \/ \E n \in {0, MaxStock}, F \in SUBSET StockCalls : updateIngredientStock(1, n, F)

SpecFaults == InitStock /\ [][NextFaults]_vars

(***************************************************************************)
(* SpecCosting: ingredient prices, selling prices and target margins move  *)
(* under the costed menu; the recipes stay as the kitchen starts with.     *)
(***************************************************************************)
SellingPrices == {0, 3, 10}
TargetMargins == {50, 100}
PricedIngredients == {1, 3}

\* the recipe menu item 1 starts with, or none
CostingRecipes ==
  {{[ingredientId |-> 1, quantity |-> 1], [ingredientId |-> 3, quantity |-> 1]}, {}}

\* the edit form's submission for menu item 1
CostingEdits ==
  {[id |-> 1, name |-> "m1", sellingPrice |-> p, targetMargin |-> t, recipe |-> r]
     : p \in SellingPrices, t \in TargetMargins, r \in CostingRecipes}

NextCosting ==
  \/ InitialLoad(NoFailure)
  \/ \E id \in OutletIds : SetCurrentOutletId(id)
  \/ \E id \in PricedIngredients, p \in 0..MaxPrice : updateIngredientPrice(id, p, NoFailure)
  \/ \E item \in CostingEdits : updateMenuItem(item, NoFailure)
  \/ \E p \in {-1, 0, 4, 20} : updateMenuItemPrice(2, p, NoFailure)

SpecCosting == InitStock /\ [][NextCosting]_vars

(***************************************************************************)
(* SpecProfitLoss: the profit-and-loss statement while single sales, one   *)
(* cost and one waste record come and go, the clock runs and the period    *)
(* changes.  The kitchen has no stock, so sales and waste leave it at 0.   *)
(***************************************************************************)
Periods == {1, 30}
LedgerCosts == {[amount |-> 1, interval |-> "daily"], [amount |-> 31, interval |-> "monthly"]}

NextProfitLoss ==
  \/ InitialLoad(NoFailure)
  \/ \E id \in OutletIds : SetCurrentOutletId(id)
  \/ \E days \in Periods : setDateRange(days)
  \/ ClockAdvance
  \/ \E sales \in OneSale : processDailySales(sales, NoFailure)
  \/ \E cost \in LedgerCosts : db.operational_costs = {} /\ addOperationalCost(cost, NoFailure)
  \/ \E id \in CostIds : deleteOperationalCost(id, NoFailure)
  \/ db.waste_records = {} /\ addWasteRecord(1, 1, NoFailure)
  \/ loadAllDataAcrossDelete(1)

SpecProfitLoss == InitOrders /\ [][NextProfitLoss]_vars

(***************************************************************************)
(* SpecCharts: the daily revenue series while sales are recorded, the      *)
(* clock runs and the window changes.  The store starts with a sale of the *)
(* day before the hook is mounted.                                         *)
(***************************************************************************)
Windows == {1, 2}

ChartsDb ==
  [KitchenDb([i \in IngredientIds |-> 0]) EXCEPT
     !.sales_history = SetToBag({[outlet_id |-> 1, menu_item_id |-> 1, date |-> -1,
                                  quantity_sold |-> 1, total_revenue |-> 10]})]

InitCharts ==
  /\ HookStart
  /\ db = ChartsDb

NextCharts ==
  \/ InitialLoad(NoFailure)
  \/ \E id \in OutletIds : SetCurrentOutletId(id)
  \/ \E days \in Windows : setDateRange(days)
  \/ ClockAdvance
  \/ \E sales \in OneSale : processDailySales(sales, NoFailure)

SpecCharts == InitCharts /\ [][NextCharts]_vars

(***************************************************************************)
(* SpecAlerts: the price of ingredient 1 (in both recipes) and of          *)
(* ingredient 2 (in none) moves while menu item 1's recipe is emptied and  *)
(* restored and menu item 2 is deleted.                                    *)
(***************************************************************************)
AlertPrices == {0, 8, 9, 100, 105, 110, 111}
UnusedPrices == {2, 3}

AlertEdits ==
  {[id |-> 1, name |-> "m1", sellingPrice |-> 10, targetMargin |-> 50, recipe |-> r]
     : r \in CostingRecipes}

NextAlerts ==
  \/ InitialLoad(NoFailure)
  \/ \E id \in OutletIds : SetCurrentOutletId(id)
  \/ \E p \in AlertPrices : updateIngredientPrice(1, p, NoFailure)
  \/ \E p \in UnusedPrices : updateIngredientPrice(2, p, NoFailure)
  \/ \E item \in AlertEdits : updateMenuItem(item, NoFailure)
  \/ deleteMenuItem(2, NoFailure)

SpecAlerts == InitStock /\ [][NextAlerts]_vars

(***************************************************************************)
(* SpecLowStock: stock levels move around the reorder points, ingredients  *)
(* come and go.                                                            *)
(***************************************************************************)
NextLowStock ==
  \/ InitialLoad(NoFailure)
  \/ \E id \in OutletIds : SetCurrentOutletId(id)
  \/ \E id \in IngredientIds, n \in 0..MaxStock : updateIngredientStock(id, n, NoFailure)
  \/ deleteIngredient(2, NoFailure)
  \/ addIngredient(NewIngredient, NoFailure)

SpecLowStock == InitStock /\ [][NextLowStock]_vars

(***************************************************************************)
(* SpecNotifications: prices of the two ingredients of outlet 1 rise and   *)
(* fall, ingredient 2 enters menu item 2's recipe, ingredient 1 runs low,  *)
(* and shown notifications are marked read.                                *)
(***************************************************************************)
NotifiedPrices == {1, 2}

NotificationEdits ==
  {[id |-> 2, name |-> "m2", sellingPrice |-> 20, targetMargin |-> 50,
    recipe |-> {[ingredientId |-> 1, quantity |-> 2], [ingredientId |-> 2, quantity |-> 1]}]}

NextNotifications ==
  \/ InitialLoad(NoFailure)
  \/ \E id \in {1, 2} : SetCurrentOutletId(id)
  \/ \E id \in {1, 2}, p \in NotifiedPrices : updateIngredientPrice(id, p, NoFailure)
  \/ \E n \in {0, MaxStock} : updateIngredientStock(1, n, NoFailure)
  \/ \E item \in NotificationEdits : updateMenuItem(item, NoFailure)
  \/ \E n \in notifications : markNotificationsAsRead({n.id})

SpecNotifications == InitStock /\ [][NextNotifications]_vars

(***************************************************************************)
(* SpecCampaign: a campaign is launched and ended while sales of menu item *)
(* 1 are recorded in either outlet and the clock runs.                     *)
(***************************************************************************)
SalesOfItem1 == {sales \in SalesInputs : sales[1] > 0 /\ sales[2] = 0}

NextCampaign ==
  \/ InitialLoad(NoFailure)
  \/ \E id \in {1, 2} : SetCurrentOutletId(id)
  \/ ClockAdvance
  \/ \E sales \in SalesOfItem1 : processDailySales(sales, NoFailure)
  \/ \E name \in CampaignNames : launchCampaign(name, NoFailure)
  \/ endCampaign(NoFailure)

SpecCampaign == InitOrders /\ [][NextCampaign]_vars

(***************************************************************************)
(* SpecScope: records of every outlet-scoped kind, a supplier and a        *)
(* campaign are written while the selected outlet changes.                 *)
(***************************************************************************)
NewSupplier == [name |-> "s1"]

NextScope ==
  \/ InitialLoad(NoFailure)
  \/ \E id \in {1, 2} : SetCurrentOutletId(id)
  \/ \E sales \in OneSale : processDailySales(sales, NoFailure)
  \/ \E id \in {1, 3} : addWasteRecord(id, 1, NoFailure)
  \/ addPendingOrder(<<[ingredientId |-> 1, quantityToOrder |-> 1]>>, NoFailure)
  \/ db.operational_costs = {} /\ addOperationalCost(DailyCost, NoFailure)
  \/ db.suppliers = {} /\ addSupplier(NewSupplier, NoFailure)
  \/ db.active_campaigns = <<>> /\ launchCampaign("c1", NoFailure)

SpecScope == InitStock /\ [][NextScope]_vars

(***************************************************************************)
(* SpecWaste: waste is recorded, below and above the stock at hand, while  *)
(* ingredient prices are updated one by one and in batches.                *)
(***************************************************************************)
WasteQuantities == {1, MaxStock + 1}

\* price lists: an entry for an ingredient of each outlet
PriceLists == {<<[id |-> 3, price |-> p], [id |-> 1, price |-> p]>> : p \in 1..MaxPrice}

NextWaste ==
  \/ InitialLoad(NoFailure)
  \/ \E id \in {1, 2} : SetCurrentOutletId(id)
  \/ \E id \in {1, 3}, q \in WasteQuantities : addWasteRecord(id, q, NoFailure)
  \/ \E p \in 1..MaxPrice : updateIngredientPrice(1, p, NoFailure)
  \/ \E list \in PriceLists : updateIngredientPrices(list, NoFailure)

SpecWaste == InitStock /\ [][NextWaste]_vars

(***************************************************************************)
(* SpecPrices: the first outlet stays selected; prices, 0 included, are    *)
(* set one by one (any ingredient) and in lists over the outlet's two      *)
(* ingredients, between stock entries and sales.                           *)
(***************************************************************************)
OwnPriceLists ==
  {<<[id |-> 2, price |-> p], [id |-> 1, price |-> q]>> : p \in {1, MaxPrice}, q \in 0..MaxPrice}

NextPrices ==
  \/ InitialLoad(NoFailure)
  \/ \E id \in {1, 3}, p \in 0..MaxPrice : updateIngredientPrice(id, p, NoFailure)
  \/ \E list \in OwnPriceLists : updateIngredientPrices(list, NoFailure)
  \/ updateIngredientStock(1, 0, NoFailure)
  \/ \E sales \in OneSale : processDailySales(sales, NoFailure)

SpecPrices == InitStock /\ [][NextPrices]_vars

(***************************************************************************)
(* Claims about stock.                                                     *)
(***************************************************************************)
StockOf(d, id) == IngredientRow(d, id).stock_level
IngredientIdsOf(d) == {r.id : r \in d.ingredients}

\* C1: after any sequence of processDailySales, addWasteRecord, receiveStock
\* and updateIngredientStock from a store whose stock levels are all >= 0,
\* every ingredient's stockLevel is >= 0, in the store and in the snapshot.
C1_StockNeverNegative ==
  /\ \A r \in db.ingredients : r.stock_level >= 0
  /\ \A i \in allIngredients : i.stockLevel >= 0

\* what a batch consumes of an ingredient, from the store's recipe rows
C2_Consumed(sales, id) ==
  LET soldRows == {r \in db.recipes :
                     /\ r.ingredient_id = id
                     /\ HasMenuRow(db, r.menu_item_id)
                     /\ sales[r.menu_item_id] > 0}
  IN SumOver(soldRows, [r \in soldRows |-> r.quantity * sales[r.menu_item_id]])

C2_Post(sales) ==
  /\ IngredientIdsOf(db') = IngredientIdsOf(db)
  /\ \A id \in IngredientIdsOf(db) :
       StockOf(db', id) =
         IF IngredientRow(db, id).outlet_id = currentOutletId
         THEN Max(0, StockOf(db, id) - C2_Consumed(sales, id))
         ELSE StockOf(db, id)
  /\ allIngredients' = getIngredients(db')

\* C2: processDailySales(sales) leaves every ingredient of the selected
\* outlet at max(0, old stock - C), C the sum of quantity * sales[m] over the
\* recipe components of the sold items that reference it; ingredients no sold
\* item references, and ingredients of other outlets, keep their stock.
C2_DailySalesConsumeStock ==
  [][\A sales \in SalesInputs : processDailySales(sales, NoFailure) => C2_Post(sales)]_vars

\* a two-item batch was recorded in outlet 1: ingredient 1, used by both
\* items, is clamped at 0, and ingredient 3 of outlet 2 is untouched
C2_Witness ==
  /\ ret.op = "processDailySales"
  /\ BagSize(db.sales_history) = 2
  /\ \A r \in DOMAIN db.sales_history : r.outlet_id = 1 /\ r.quantity_sold = 2
  /\ StockOf(db, 1) = 0
  /\ StockOf(db, 3) = MaxStock

\* the ordered quantity of an ingredient: the sum of its entries in the order
C3_Listed(items, id) ==
  LET at == {k \in DOMAIN items : items[k].ingredientId = id}
  IN SumOver(at, [k \in at |-> items[k].quantityToOrder])

C3_Post(orderId) ==
  IF \E o \in db.pending_orders : o.id = orderId /\ o.outlet_id = currentOutletId
  THEN LET order == CHOOSE o \in db.pending_orders : o.id = orderId
       IN /\ IngredientIdsOf(db') = IngredientIdsOf(db)
          /\ \A id \in IngredientIdsOf(db) :
               StockOf(db', id) = StockOf(db, id) + C3_Listed(order.items, id)
          /\ db'.pending_orders = db.pending_orders \ {order}
          /\ allPendingOrders' = getPendingOrders(db')
  ELSE db' = db

\* C3: receiveStock(orderId) for a pending order of the selected outlet adds
\* to each listed ingredient the sum of its quantityToOrder entries, leaves
\* the other ingredients alone and removes the order; for any other orderId
\* it writes nothing.
C3_ReceiveStockAddsOrdered ==
  [][\A orderId \in OrderIds : receiveStock(orderId, NoFailure) => C3_Post(orderId)]_vars

\* an order listing ingredient 1 twice was received: its stock went 0 -> 2
C3_Witness ==
  /\ ret.op = "receiveStock"
  /\ db.pending_orders = {}
  /\ StockOf(db, 1) = 2
  /\ StockOf(db, 2) = 0
  /\ StockOf(db, 3) = 0

(***************************************************************************)
(* Claims about the deletion guards.                                       *)
(***************************************************************************)
C4_Referenced(id) == \E r \in db.recipes : r.ingredient_id = id

C4_Post(id) ==
  IF C4_Referenced(id)
  THEN /\ ret'.out = "refused"
       /\ db' = db
       /\ UNCHANGED memVars
  ELSE /\ ret'.out = "success"
       /\ IngredientIdsOf(db') = IngredientIdsOf(db) \ {id}
       /\ db'.recipes = db.recipes
       /\ \A r \in db'.recipes : r.ingredient_id # id

\* C4: deleteIngredient(id) returns {success:false} and writes nothing while
\* a recipe component references id; otherwise it deletes the ingredient and
\* returns {success:true}, so no recipe component is left referencing a
\* deleted ingredient.
C4_DeleteIngredientGuard ==
  [][\A id \in IngredientIds : deleteIngredient(id, NoFailure) => C4_Post(id)]_vars

\* ingredient 1, which both starting recipes use, was deleted once the
\* recipes had been edited away from it
C4_Witness ==
  /\ ret.op = "deleteIngredient"
  /\ ret.out = "success"
  /\ 1 \notin IngredientIdsOf(db)
  /\ db.recipes # {}

C5_OutletIdsOf(d) == {d.outlets[k].id : k \in DOMAIN d.outlets}

C5_Owns(id) ==
  \/ \E r \in db.ingredients : r.outlet_id = id
  \/ \E r \in DOMAIN db.sales_history : r.outlet_id = id
  \/ \E r \in db.operational_costs : r.outlet_id = id

C5_Post(id) ==
  IF Len(db.outlets) = 1 \/ id = currentOutletId \/ C5_Owns(id)
  THEN /\ ret'.out = "refused"
       /\ db' = db
       /\ UNCHANGED memVars
  ELSE /\ ret'.out = "success"
       /\ C5_OutletIdsOf(db') = C5_OutletIdsOf(db) \ {id}
       /\ {outlets'[k].id : k \in DOMAIN outlets'} = C5_OutletIdsOf(db')
       /\ Len(outlets') = Len(outlets) - 1

\* C5: deleteOutlet(id), id an outlet, returns {success:false, message}
\* without a store write when it is the only outlet, or the selected one, or
\* an ingredient, sales record or operational cost belongs to it; otherwise
\* the outlet is deleted and {success:true} returned.
C5_DeleteOutletGuard ==
  [][\A id \in C5_OutletIdsOf(db) : deleteOutlet(id, NoFailure) => C5_Post(id)]_vars

\* a third outlet was added and one of the first two deleted
C5_Witness ==
  /\ ret.op = "deleteOutlet"
  /\ ret.out = "success"
  /\ Len(db.outlets) = 2
  /\ 3 \in C5_OutletIdsOf(db)

(***************************************************************************)
(* Claims about campaigns, reloads and store errors.                       *)
(***************************************************************************)
\* C6: whatever the store answers to the calls of launchCampaign and
\* endCampaign, active_campaigns holds at most one row; after a launchCampaign
\* that resolved it holds exactly one, and after an endCampaign that resolved
\* it is empty.
C6_AtMostOneCampaign ==
  /\ Len(db.active_campaigns) <= 1
  /\ (ret.op = "launchCampaign" /\ ret.out = "ok") => Len(db.active_campaigns) = 1
  /\ (ret.op = "endCampaign" /\ ret.out = "ok") => db.active_campaigns = <<>>

\* every raw collection of the snapshot is what the store holds
Synced ==
  /\ outlets = getOutlets(db)
  /\ allIngredients = getIngredients(db)
  /\ menuItemsData = getMenuItems(db)
  /\ recipes = getRecipes(db)
  /\ allSalesHistory = getSalesHistory(db)
  /\ allOperationalCosts = getOperationalCosts(db)
  /\ allWasteHistory = getWasteRecords(db)
  /\ allPendingOrders = getPendingOrders(db)
  /\ suppliers = getSuppliers(db)
  /\ activeCampaign = getActiveCampaign(db)

MutationOps ==
  {"addIngredient", "deleteIngredient", "updateMenuItem", "deleteMenuItem"}

\* C7: a mutation that wrote to the store and returned has reloaded the
\* whole snapshot (it set no collection itself), and the snapshot equals the
\* store.
C7_MutationsReload ==
  (ret.op \in MutationOps /\ ret.out \in {"ok", "success"}) =>
     (ret.reloaded /\ Synced)

\* C8: an entry point one of whose store calls (a write, a delete step, a
\* read of the reload) was answered with an error rejects with that error.
C8_ErrorsPropagate ==
  (ret.op \in {"launchCampaign", "endCampaign", "updateIngredientStock"} /\ ret.err)
     => ret.out = "threw"

(***************************************************************************)
(* Claims about the costed menu.                                           *)
(***************************************************************************)
\* actualMargin - targetMargin of a costed item, as a fraction
C9_Diff(item) ==
  [num |-> item.actualMargin.num - item.targetMargin * item.actualMargin.den,
   den |-> item.actualMargin.den]

\* C9: with diff = actualMargin - targetMargin, an item is Safe exactly when
\* diff >= 0, Warning exactly when -10 <= diff < 0, Danger exactly when
\* diff < -10.
C9_MarginStatusBands ==
  \A item \in menuItems :
    LET d == C9_Diff(item)
    IN /\ d.den > 0
       /\ item.marginStatus = "Safe" <=> d.num >= 0
       /\ item.marginStatus = "Warning" <=> (d.num < 0 /\ d.num >= -10 * d.den)
       /\ item.marginStatus = "Danger" <=> d.num < -10 * d.den

\* one item sits exactly 10 points under its target, another exactly on it
C9_Witness ==
  /\ \E item \in menuItems :
       /\ C9_Diff(item).num = -10 * C9_Diff(item).den
       /\ item.marginStatus = "Warning"
  /\ \E item \in menuItems :
       /\ C9_Diff(item).num = 0
       /\ item.marginStatus = "Safe"

\* the price the ingredient mapping holds for an ingredient, 0 when absent
C10_MappedPrice(id) ==
  LET hit == {i \in allIngredients : i.id = id /\ i.outletId = currentOutletId}
  IN IF hit = {} THEN 0 ELSE (CHOOSE i \in hit : TRUE).price

C10_Sum(item) ==
  LET rows == {r \in recipes : r.menuItemId = item.id}
  IN SumOver(rows, [r \in rows |-> C10_MappedPrice(r.ingredientId) * r.quantity])

\* C10: an item's cogs is the sum over its recipe components of ingredient
\* price * quantity, a component whose ingredient is not in the mapping
\* counting 0.
C10_CogsIsComponentSum ==
  \A item \in menuItems : item.cogs = C10_Sum(item)

\* item 1 is costed in outlet 1: ingredient 3, of outlet 2 and priced above
\* 0, is not in the mapping, and the item's cogs is ingredient 1's price
C10_Witness ==
  /\ currentOutletId = 1
  /\ \E i \in allIngredients : i.id = 3 /\ i.price > 0
  /\ \E item \in menuItems :
       /\ item.id = 1
       /\ \E c \in item.recipe : c.ingredientId = 3
       /\ item.cogs = MaxPrice

\* C11: an item with an empty recipe has cogs 0 and, when its selling price
\* is above 0, an actual margin of 100; an item whose selling price is 0 or
\* less has an actual margin of 0, no division being performed.
C11_EmptyRecipeAndFreeItems ==
  \A item \in menuItems :
    /\ item.recipe = {} => item.cogs = 0
    /\ (item.recipe = {} /\ item.sellingPrice > 0) =>
         (item.actualMargin.den > 0 /\ item.actualMargin.num = 100 * item.actualMargin.den)
    /\ item.sellingPrice <= 0 =>
         (item.actualMargin.den > 0 /\ item.actualMargin.num = 0)

\* item 1 has lost its recipe and sells above 0; item 2, which still has a
\* priced recipe, sells below 0
C11_Witness ==
  /\ \E item \in menuItems :
       item.id = 1 /\ item.recipe = {} /\ item.sellingPrice > 0 /\ item.actualMargin.num > 0
  /\ \E item \in menuItems :
       item.id = 2 /\ item.sellingPrice < 0 /\ item.cogs > 0 /\ item.actualMargin.num = 0

(***************************************************************************)
(* Claims about the profit-and-loss statement.                             *)
(***************************************************************************)
\* the sales records of the selected outlet dated at or after the cutoff
C12_SalesInPeriod ==
  {r \in DOMAIN allSalesHistory :
     r.outletId = currentOutletId /\ DateInstant(r.date) >= Now - dateRange * TicksPerDay}

\* C12: grossProfit = totalRevenue - totalCogs and netProfit = grossProfit -
\* totalOperationalCost - totalWasteCost; when no sale falls in the period,
\* totalRevenue, grossProfitMargin and netProfitMargin are 0 and netProfit is
\* -(totalOperationalCost + totalWasteCost).
C12_ProfitLossIdentities ==
  LET pl == profitLossStats
  IN /\ pl.grossProfit = pl.totalRevenue - pl.totalCogs
     /\ pl.netProfit.den = pl.totalOperationalCost.den
     /\ pl.netProfit.den > 0
     /\ pl.netProfit.num = pl.netProfit.den * pl.grossProfit
                             - pl.totalOperationalCost.num
                             - pl.netProfit.den * pl.totalWasteCost
     /\ C12_SalesInPeriod = {} =>
          /\ pl.totalRevenue = 0
          /\ pl.grossProfitMargin.num = 0 /\ pl.grossProfitMargin.den > 0
          /\ pl.netProfitMargin.num = 0 /\ pl.netProfitMargin.den > 0
          /\ pl.netProfit.num =
               -(pl.totalOperationalCost.num + pl.netProfit.den * pl.totalWasteCost)

\* yesterday's sale has left the one-day period: the statement shows no
\* revenue, a cost and a waste, and a loss of their sum
C12_Witness ==
  /\ dateRange = 1
  /\ DOMAIN salesHistory # {}
  /\ C12_SalesInPeriod = {}
  /\ profitLossStats.totalOperationalCost.num > 0
  /\ profitLossStats.totalWasteCost > 0
  /\ profitLossStats.netProfit.num < 0

\* C13: the statement's totalRevenue is the sum of totalRevenue over every
\* sales record of the outlet dated at or after the cutoff, which is the
\* dashboard's totalRevenue; its totalCogs is the sum of cogs * quantitySold
\* over those of these records whose menu item exists.
C13_RevenueAndCogs ==
  LET pl == profitLossStats
      kept == C12_SalesInPeriod
      known == {r \in kept : \E m \in menuItems : m.id = r.menuItemId}
      cogsOf(r) == (CHOOSE m \in menuItems : m.id = r.menuItemId).cogs
  IN /\ pl.totalRevenue = SumOver(kept, [r \in kept |-> r.totalRevenue * allSalesHistory[r]])
     /\ pl.totalRevenue = dashboardStats.totalRevenue
     /\ pl.totalCogs =
          SumOver(known, [r \in known |-> cogsOf(r) * r.quantitySold * allSalesHistory[r]])

\* the sum of amount * P over the daily costs plus amount * P / 30 over the
\* monthly costs of the selected outlet, in thirtieths
C14_Thirtieths(P) ==
  LET mine == {c \in allOperationalCosts : c.outletId = currentOutletId}
  IN SumOver(mine, [c \in mine |->
                      IF c.interval = "daily" THEN 30 * c.amount * P ELSE c.amount * P])

\* C14: totalOperationalCost of a P-day statement is the sum over the
\* outlet's costs of dailyCost * P, whatever the sales and waste records; for
\* P = 30 a monthly cost contributes exactly its amount.
C14_OperationalCostOfPeriod ==
  /\ profitLossStats.totalOperationalCost.num * 30
       = C14_Thirtieths(dateRange) * profitLossStats.totalOperationalCost.den
  /\ calculateProfitLoss(dateRange, EmptyBag, menuItems, operationalCosts, {}).totalOperationalCost
       = profitLossStats.totalOperationalCost
  /\ dateRange = 30 =>
       \A c \in operationalCosts :
          c.interval = "monthly" =>
             monthlyCostOverPeriod(c.amount, dateRange) = DoubleOfInt(c.amount)

(***************************************************************************)
(* Claims about the daily series.                                          *)
(***************************************************************************)
\* the revenue of the selected outlet's records that satisfy P
C15_Revenue(P(_)) ==
  LET hit == {r \in DOMAIN allSalesHistory : r.outletId = currentOutletId /\ P(r)}
  IN SumOver(hit, [r \in hit |-> r.totalRevenue * allSalesHistory[r]])

\* C15: the daily series has W labels and W values, the days today - W + 1
\* to today in this order; each value is the revenue of the selected
\* outlet's records of that day; the values sum to the revenue of the
\* records of the primary window (date >= now - W days).
C15_DailySeries ==
  LET W == dateRange
      InWindow(r) == DateInstant(r.date) >= Now - W * TicksPerDay
  IN /\ Len(chartData.labels) = W
     /\ Len(chartData.data) = W
     /\ \A k \in 1..W :
          /\ chartData.labels[k] = today - W + k
          /\ LET OfDay(r) == r.date = today - W + k
             IN chartData.data[k] = C15_Revenue(OfDay)
     /\ SeqSum(chartData.data) = C15_Revenue(InWindow)

\* C16: the comparison series has W values, one for each of the W days
\* before the first day of the primary series, oldest first, each the
\* revenue of the selected outlet's records of that day; the values sum to
\* the revenue of the records dated in [now - 2W, now - W); no record of
\* that window is dated on a day of the primary series.
C16_ComparisonSeries ==
  LET W == dateRange
      InComparison(r) == /\ DateInstant(r.date) >= Now - 2 * W * TicksPerDay
                         /\ DateInstant(r.date) < Now - W * TicksPerDay
      InBoth(r) == InComparison(r) /\ \E k \in 1..W : r.date = chartData.labels[k]
  IN /\ Len(comparisonChartData.data) = W
     /\ \A k \in 1..W :
          LET OfDay(r) == r.date = chartData.labels[1] - W + k - 1
          IN comparisonChartData.data[k] = C15_Revenue(OfDay)
     /\ SeqSum(comparisonChartData.data) = C15_Revenue(InComparison)
     /\ C15_Revenue(InBoth) = 0

(***************************************************************************)
(* Claims about price alerts and notifications.                            *)
(***************************************************************************)
\* the names of the menu items with a recipe row on the ingredient
C17_Referencing(id) ==
  {m.name : m \in {x \in menuItemsData :
                     \E r \in recipes : r.menuItemId = x.id /\ r.ingredientId = id}}

\* the alerts that name the ingredient
C17_AlertsOf(id) ==
  {k \in DOMAIN marginAlerts : marginAlerts[k].ingredientName = IngredientName(id)}

\* C17: an ingredient of the selected outlet has an alert iff its previous
\* price exists, its price is above it, the increase is strictly above 10
\* percent of the previous price and some menu item's recipe references it;
\* it then has exactly one, carrying the percent rounded to the nearest
\* integer and exactly the referencing items' names.  100 -> 111 gives 11;
\* 100 -> 105 and 100 -> 110 give no alert.
C17_PriceSpikeAlerts ==
  /\ \A k \in DOMAIN marginAlerts :
       \E i \in allIngredients :
         i.outletId = currentOutletId /\ IngredientName(i.id) = marginAlerts[k].ingredientName
  /\ \A i \in allIngredients :
       i.outletId = currentOutletId =>
         LET spike == /\ i.previousPrice # Undefined
                      /\ i.price > i.previousPrice
                      /\ (i.price - i.previousPrice) * 100 > 10 * i.previousPrice
                      /\ C17_Referencing(i.id) # {}
         IN /\ (C17_AlertsOf(i.id) # {}) <=> spike
            /\ Cardinality(C17_AlertsOf(i.id)) <= 1
            /\ \A k \in C17_AlertsOf(i.id) :
                 LET n == marginAlerts[k].priceIncreasePercent
                 IN /\ (2 * n - 1) * i.previousPrice <= 200 * (i.price - i.previousPrice)
                    /\ 200 * (i.price - i.previousPrice) < (2 * n + 1) * i.previousPrice
                    /\ marginAlerts[k].affectedMenus = C17_Referencing(i.id)
                    /\ (i.previousPrice = 100 /\ i.price = 111) => n = 11
            /\ (i.previousPrice = 100 /\ i.price \in {105, 110}) => C17_AlertsOf(i.id) = {}

\* 100 -> 111 with menu item 1 alone referencing: one alert, of 11 percent
C17_Witness ==
  /\ ret.op = "updateIngredientPrice"
  /\ marginAlerts = <<[ingredientName |-> IngredientName(1), priceIncreasePercent |-> 11,
                       affectedMenus |-> {"m1"}]>>
  /\ \E i \in ingredients : i.id = 2 /\ i.previousPrice = 2 /\ i.price = 3

\* the ingredients of the selected outlet at or below their reorder point
C18_LowStock ==
  {i \in allIngredients : i.outletId = currentOutletId /\ i.stockLevel <= i.reorderPoint}

\* C18: the low_stock notifications correspond one to one to the selected
\* outlet's ingredients with stockLevel <= reorderPoint, and their number is
\* the lowStockCount of the dashboard and of the inventory overview.
C18_LowStockNotifications ==
  LET lowStock == {n \in notifications : n.type = "low_stock"}
  IN /\ \A n \in lowStock : \E i \in C18_LowStock : n.id = <<"lowstock", i.id>>
     /\ \A i \in C18_LowStock :
          Cardinality({n \in lowStock : n.id = <<"lowstock", i.id>>}) = 1
     /\ Cardinality(lowStock) = dashboardStats.lowStockCount
     /\ Cardinality(lowStock) = inventoryOverviewStats.lowStockCount

\* of the selected outlet's two ingredients one is exactly at its reorder
\* point and notified, the other above it
C18_Witness ==
  /\ ret.op = "updateIngredientStock"
  /\ \E i \in ingredients : i.stockLevel = i.reorderPoint
  /\ \E i \in ingredients : i.stockLevel > i.reorderPoint
  /\ Cardinality({n \in notifications : n.type = "low_stock"}) = 1
  /\ inventoryOverviewStats.lowStockCount = 1

\* the alert a notification stands for: its type and its source ingredient
C19_Alert(n) ==
  IF n.type = "low_stock" THEN <<n.type, n.id[2]>>
  ELSE <<n.type, CHOOSE id \in IngredientIds : IngredientName(id) = n.id[2]>>

\* C19: a notification's identifier is a function of its source ingredient
\* and its type alone: over every step, the same alert keeps its identifier
\* and, once read, stays read while it exists; the same identifier never
\* passes to a different alert, so no other alert appears read.
C19_StableIdentifiers ==
  [][\A n \in notifications : \A m \in notifications' :
       /\ (C19_Alert(n) = C19_Alert(m)) => (n.id = m.id /\ (n.isRead => m.isRead))
       /\ (n.id = m.id) => (C19_Alert(n) = C19_Alert(m))]_vars

(***************************************************************************)
(* Claims about the campaign.                                              *)
(***************************************************************************)
\* units of the campaign's items sold, in any outlet, dated from an instant
\* on and before another
C20_Units(from, to) ==
  LET names == {activeCampaign[1].involvedItems.item1Name,
                activeCampaign[1].involvedItems.item2Name}
      items == {m.id : m \in {x \in menuItemsData : x.name \in names}}
      hit == {r \in DOMAIN allSalesHistory :
                /\ r.menuItemId \in items
                /\ DateInstant(r.date) >= from /\ DateInstant(r.date) < to}
  IN SumOver(hit, [r \in hit |-> r.quantitySold * allSalesHistory[r]])

\* C20: the performance is absent exactly when no campaign is active;
\* otherwise, with D the units of the involved items dated in
\* [startDate, now) and B those dated in [startDate - daysRunning days,
\* startDate), in every outlet: the change is (D/n - B/n) / (B/n) * 100 when
\* B > 0, 100 when B = 0 and D > 0, 0 when both are 0, and never a division
\* by zero.
C20_CampaignPerformance ==
  /\ (campaignPerformance = <<>>) <=> (activeCampaign = <<>>)
  /\ activeCampaign # <<>> =>
       LET start == activeCampaign[1].startDate
           n == campaignPerformance[1].daysRunning
           change == campaignPerformance[1].percentageChange
           D == C20_Units(start, Now)
           B == C20_Units(start - n * TicksPerDay, start)
       IN /\ change.den # 0
          /\ B > 0 => change.num * B * n = (D * n - B * n) * 100 * change.den
          /\ B > 0 => n # 0
          /\ (B = 0 /\ D > 0) => change.num = 100 * change.den
          /\ (B = 0 /\ D = 0) => change.num = 0

\* campaign "c1" has run one day; two units were sold the day it started
\* and one since, in another outlet than the selected one: a change of -50
C20_Witness ==
  /\ activeCampaign # <<>>
  /\ activeCampaign[1].campaignName = "c1"
  /\ campaignPerformance[1].daysRunning = 1
  /\ campaignPerformance[1].percentageChange.num = -50 * campaignPerformance[1].percentageChange.den
  /\ \E r \in DOMAIN allSalesHistory :
       r.outletId # currentOutletId /\ DateInstant(r.date) >= activeCampaign[1].startDate

(***************************************************************************)
(* Claims about the outlet scope.                                          *)
(***************************************************************************)
\* the menu as stored: each item's own fields and its recipe
C21_Catalog ==
  {[id |-> m.id, name |-> m.name, sellingPrice |-> m.sellingPrice,
    targetMargin |-> m.targetMargin, recipe |-> m.recipe] : m \in menuItems}

\* a scoped set holds exactly the records of the raw one with the selected id
C21_Scoped(scoped, raw) ==
  /\ scoped \subseteq raw
  /\ \A r \in raw : r \in scoped <=> r.outletId = currentOutletId

\* the state part of C21: the five outlet-scoped collections are exactly the
\* snapshot's records whose outletId is the selected id; the catalog is the
\* whole stored menu.
C21_ScopedCollections ==
  /\ C21_Scoped(ingredients, allIngredients)
  /\ C21_Scoped(operationalCosts, allOperationalCosts)
  /\ C21_Scoped(wasteHistory, allWasteHistory)
  /\ C21_Scoped(pendingOrders, allPendingOrders)
  /\ C21_Scoped(DOMAIN salesHistory, DOMAIN allSalesHistory)
  /\ \A r \in DOMAIN salesHistory : salesHistory[r] = allSalesHistory[r]
  /\ {m.id : m \in C21_Catalog} = {m.id : m \in menuItemsData}

\* the step part of C21: selecting another outlet changes no raw collection and
\* leaves the menu catalog, the suppliers and the active campaign as they are.
C21_SelectionKeepsSnapshot ==
  [][\A id \in OutletIds :
       SetCurrentOutletId(id) =>
         /\ UNCHANGED <<outlets, allIngredients, menuItemsData, recipes, allSalesHistory,
                        allOperationalCosts, allWasteHistory, allPendingOrders,
                        suppliers, activeCampaign>>
         /\ C21_Catalog' = C21_Catalog]_vars

\* C21: in every state the outlet-scoped ingredients, sales, costs, waste
\* records and pending orders are exactly the snapshot's records of the
\* selected outlet, and over every step that selects an outlet no raw
\* collection changes and the menu catalog, the suppliers and the active
\* campaign stay the same.
C21_OutletScope == []C21_ScopedCollections /\ C21_SelectionKeepsSnapshot

\* outlet 2 is selected after outlet 1 wrote a sale, a cost, a waste record
\* and an order; a supplier and a campaign exist
C21_Witness ==
  /\ ret.op = "setCurrentOutletId"
  /\ currentOutletId = 2
  /\ DOMAIN allSalesHistory # {} /\ DOMAIN salesHistory = {}
  /\ allOperationalCosts # {} /\ operationalCosts = {}
  /\ allWasteHistory # {} /\ wasteHistory = {}
  /\ allPendingOrders # {} /\ pendingOrders = {}
  /\ ingredients # {} /\ ingredients # allIngredients
  /\ suppliers # {} /\ activeCampaign # <<>>

(***************************************************************************)
(* Claims about waste and prices.                                          *)
(***************************************************************************)
\* the store's row of an ingredient of the selected outlet, if it is one
C22_Ours(id) == \E r \in db.ingredients : r.id = id /\ r.outlet_id = currentOutletId

\* C22: addWasteRecord for an ingredient of the selected outlet stores one
\* record whose cost is the ingredient's price at that moment times the
\* quantity and sets the stock to max(0, stock - quantity); a price update
\* changes no stored waste record and no totalWasteCost.
C22_WasteCostIsFixed ==
  [][/\ \A id \in IngredientIds, q \in WasteQuantities :
          (addWasteRecord(id, q, NoFailure) /\ C22_Ours(id)) =>
            /\ \E w \in db'.waste_records :
                 /\ db'.waste_records = db.waste_records \cup {w}
                 /\ w \notin db.waste_records
                 /\ w.ingredient_id = id /\ w.quantity = q
                 /\ w.outlet_id = currentOutletId
                 /\ w.cost = IngredientRow(db, id).price * q
            /\ StockOf(db', id) = (IF StockOf(db, id) - q > 0 THEN StockOf(db, id) - q ELSE 0)
            /\ \A other \in IngredientIdsOf(db) \ {id} : StockOf(db', other) = StockOf(db, other)
     /\ ret'.op \in {"updateIngredientPrice", "updateIngredientPrices"} =>
          /\ db'.waste_records = db.waste_records
          /\ allWasteHistory' = allWasteHistory
          /\ profitLossStats'.totalWasteCost = profitLossStats.totalWasteCost]_vars

\* a record of waste above the stock at hand keeps its cost of 3 units at
\* price 1 after the ingredient's price has gone to 2
C22_Witness ==
  /\ ret.op \in {"updateIngredientPrice", "updateIngredientPrices"}
  /\ \E w \in wasteHistory :
       /\ w.ingredientId = 1 /\ w.quantity = MaxStock + 1 /\ w.cost = MaxStock + 1
       /\ \E i \in ingredients : i.id = 1 /\ i.price = 2 /\ i.stockLevel = 0
  /\ profitLossStats.totalWasteCost = MaxStock + 1

\* the reloaded ingredient has the new price and the price it had before
C23_Repriced(id, p) ==
  \E i \in allIngredients' :
    i.id = id /\ i.price = p /\ i.previousPrice = IngredientRow(db, id).price

\* C23: after updateIngredientPrice(id, p), or updateIngredientPrices with an
\* entry id -> p, on an existing ingredient whose price was p0, the reloaded
\* ingredient has price p and previousPrice p0; a step of any other
\* operation changes no ingredient's price or previousPrice.
C23_PreviousPriceFollows ==
  [][/\ \A id \in IngredientIds, p \in 0..MaxPrice :
          (updateIngredientPrice(id, p, NoFailure) /\ HasIngredient(db, id))
            => C23_Repriced(id, p)
     /\ \A list \in OwnPriceLists :
          updateIngredientPrices(list, NoFailure) =>
            \A k \in DOMAIN list :
              HasIngredient(db, list[k].id) => C23_Repriced(list[k].id, list[k].price)
     /\ ret'.op \notin {"updateIngredientPrice", "updateIngredientPrices", "loadAllData"} =>
          \A i \in allIngredients : \E j \in allIngredients' :
            j.id = i.id /\ j.price = i.price /\ j.previousPrice = i.previousPrice]_vars

(***************************************************************************)
(* Claims about the sales ledger.                                          *)
(***************************************************************************)
\* C24: the sales history, in the store and in the snapshot, holds at most
\* one record for each outlet, menu item and calendar date.
C24_OneSalesLinePerDay ==
  /\ \A r \in DOMAIN db.sales_history :
       /\ db.sales_history[r] = 1
       /\ \A q \in DOMAIN db.sales_history :
            (q.outlet_id = r.outlet_id /\ q.menu_item_id = r.menu_item_id /\ q.date = r.date)
              => q = r
  /\ \A r \in DOMAIN allSalesHistory :
       /\ allSalesHistory[r] = 1
       /\ \A q \in DOMAIN allSalesHistory :
            (q.outletId = r.outletId /\ q.menuItemId = r.menuItemId /\ q.date = r.date)
              => q = r

(***************************************************************************)
(* SpecInterrupt: waste recording and order receipt with the store failing *)
(* the last write of the entry point.                                      *)
(***************************************************************************)
\* the calls that follow the first write of addWasteRecord / receiveStock
WasteStockCall(ingredientId) == <<"updateIngredient", ingredientId>>
OrderDeleteCall(orderId) == <<"deletePendingOrder", orderId>>

NextInterrupt ==
  \/ InitialLoad(NoFailure)
  \/ \E id \in {1, 2} : SetCurrentOutletId(id)
  \/ \E items \in SingleItemOrders : addPendingOrder(items, NoFailure)
  \/ \E id \in OrderIds : \E F \in SUBSET {OrderDeleteCall(id)} : receiveStock(id, F)
  \/ \E id \in {1, 3} : \E F \in SUBSET {WasteStockCall(id)} : addWasteRecord(id, 1, F)

SpecInterrupt == InitOrders /\ [][NextInterrupt]_vars

\* C25: when the store fails the second write of waste recording or of
\* order receipt, the record write is applied (the waste row is stored, the
\* order row is gone) and no stock level in the store has changed.
C25_StockOf(d) == {[id |-> r.id, stock_level |-> r.stock_level] : r \in d.ingredients}

C25_WasteInterrupted ==
  \A id \in IngredientIds :
     (addWasteRecord(id, 1, {WasteStockCall(id)}) /\ ret'.out = "threw") =>
        /\ Cardinality(db'.waste_records) = Cardinality(db.waste_records) + 1
        /\ C25_StockOf(db') = C25_StockOf(db)

C25_ReceiptInterrupted ==
  \A id \in OrderIds :
     (receiveStock(id, {OrderDeleteCall(id)}) /\ ret'.out = "threw") =>
        /\ ~\E o \in db'.pending_orders : o.id = id
        /\ C25_StockOf(db') = C25_StockOf(db)

C25_RecordBeforeStock == [][C25_WasteInterrupted /\ C25_ReceiptInterrupted]_vars

(***************************************************************************)
(* checkStockAvailability: the warnings shown before a batch is processed. *)
(***************************************************************************)
\* the recipe array of a menu item: its components in the order in which the
\* store returned the rows of recipes (select('*') without an order)
RecipeOrders(id) ==
  {s \in [1..Cardinality(RecipeOf(id)) -> RecipeOf(id)] : Range(s) = RecipeOf(id)}
RowOrders == {o \in [MenuIds -> UNION {RecipeOrders(id) : id \in MenuIds}] :
                \A id \in MenuIds : o[id] \in RecipeOrders(id)}

\* requiredIngredients.get(ingredientId) || 0
requiredIngredients(sales, ingredientId) ==
  LET sold == {m \in menuItems : sales[m.id] > 0}
      uses == {<<m, c>> \in UNION {{<<m, c>> : c \in m.recipe} : m \in sold}
                 : c.ingredientId = ingredientId}
  IN SumOver(uses, [u \in uses |-> u[2].quantity * sales[u[1].id]])

\* stockMap.get(ingredientId) || 0
stockMap(ingredientId) ==
  IF \E i \in ingredients : i.id = ingredientId
  THEN IngredientById(ingredients, ingredientId).stockLevel
  ELSE 0

\* the menu items that get a warning: recipe.find gives the first component
\* that is short, and the warning is written only if that component's
\* ingredient is one of the selected outlet
checkStockAvailability(sales, rowOrder) ==
  {m.id : m \in {x \in menuItems :
     /\ sales[x.id] > 0
     /\ LET recipe == rowOrder[x.id]
            short == {k \in DOMAIN recipe :
                        requiredIngredients(sales, recipe[k].ingredientId)
                          > stockMap(recipe[k].ingredientId)}
        IN /\ short # {}
           /\ LET insufficient == recipe[CHOOSE k \in short : \A j \in short : k <= j]
              IN \E i \in ingredients : i.id = insufficient.ingredientId}}

\* C26: when checkStockAvailability returns no warning for a batch,
\* processDailySales on the same snapshot clamps nothing: every ingredient of
\* the selected outlet has stock for the batch and loses exactly what the
\* batch consumes.
C26_NothingClamped(sales) ==
  \A i \in ingredients :
     /\ Consumption(sales, i.id) <= i.stockLevel
     /\ \E r \in db'.ingredients :
          r.id = i.id /\ r.stock_level = i.stockLevel - Consumption(sales, i.id)

C26_NoWarningNoClamp ==
  [][\A sales \in SalesInputs :
       \A rowOrder \in RowOrders :
          (checkStockAvailability(sales, rowOrder) = {} /\ processDailySales(sales, NoFailure))
             => C26_NothingClamped(sales)]_vars

(***************************************************************************)
(* SpecBranches: outlets added, renamed, deleted and selected, while the   *)
(* store may fail the reload that follows a write.                         *)
(***************************************************************************)
OutletNames == {" ", "C"}

NextBranches ==
  \/ \E F \in SUBSET {ReloadCall} : InitialLoad(F)
  \/ \E id \in OutletIds : HasOutletRow(db, id) /\ SetCurrentOutletId(id)
  \/ \E name \in OutletNames, F \in SUBSET {ReloadCall} : addOutlet(name, F)
  \/ \E id \in OutletIds, name \in OutletNames, F \in SUBSET {ReloadCall} :
        updateOutlet(id, name, F)
  \/ \E id \in OutletIds, F \in SUBSET {ReloadCall} : deleteOutlet(id, F)

SpecBranches == InitOutlets /\ [][NextBranches]_vars

\* C27: once a snapshot with at least one outlet is loaded, the outlet list
\* stays non-empty and currentOutletId is the id of an outlet of the store,
\* whatever outlets are added, renamed, deleted or selected.
C27_Selected ==
  Len(outlets) > 0 => (currentOutletId # NoOutlet /\ HasOutletRow(db, currentOutletId))

C27_StaysLoaded == [][Len(outlets) > 0 => Len(outlets') > 0]_vars

C27_SelectedOutletExists == []C27_Selected /\ C27_StaysLoaded

C27_Witness ==
  /\ ret.op = "deleteOutlet" /\ ret.out = "success"
  /\ Len(db.outlets) = 1
  /\ currentOutletId = 3
  /\ HasOutletRow(db, currentOutletId)

(***************************************************************************)
(* Claims about the batch price update.                                    *)
(***************************************************************************)
\* the ingredients a price list may change: its keys in the selected outlet
C28_Targets(list) == {e.id : e \in Range(list)} \cap {i.id : i \in ingredients}

C28_Untouched(list) ==
  /\ {r.id : r \in db'.ingredients} = {r.id : r \in db.ingredients}
  /\ \A r \in db.ingredients :
       \E q \in db'.ingredients :
          /\ q.id = r.id
          /\ IF r.id \in C28_Targets(list)
             THEN q = [r EXCEPT !.price = q.price, !.previous_price = q.previous_price]
             ELSE q = r
  /\ \A i \in allIngredients : i.id \notin C28_Targets(list) => i \in allIngredients'
  /\ \A i \in allIngredients :
       \E j \in allIngredients' :
          j.id = i.id /\ j.stockLevel = i.stockLevel /\ j.outletId = i.outletId

\* C28: updateIngredientPrices(map) changes price and previousPrice only of
\* the ingredients that are keys of the map and belong to the selected
\* outlet; ingredients of another outlet, ingredients not in the map and
\* every stock level and reorder point stay as they were.
C28_OnlyListedOfOutlet ==
  [][\A list \in PriceLists :
       updateIngredientPrices(list, NoFailure) => C28_Untouched(list)]_vars

C28_Witness ==
  /\ ret.op = "updateIngredientPrices"
  /\ currentOutletId = 1
  /\ \E r \in db.ingredients : r.id = 1 /\ r.price = MaxPrice /\ r.previous_price = 1
  /\ \E r \in db.ingredients : r.id = 3 /\ r.price = 1 /\ r.previous_price = Undefined
  /\ \E r \in db.ingredients : r.id = 2 /\ r.previous_price = Undefined

(***************************************************************************)
(* SpecReload: the store fails one read of a reload, at start and after    *)
(* writes to several tables.                                               *)
(***************************************************************************)
ReadFailures == {NoFailure} \cup {{ReadCall(name)} : name \in Reads}

NextReload ==
  \/ \E F \in ReadFailures : InitialLoad(F)
  \/ \E n \in {0, MaxStock}, F \in ReadFailures : updateIngredientStock(1, n, F)
  \/ \E sales \in OneSale, F \in ReadFailures : processDailySales(sales, F)
  \/ \E F \in ReadFailures : db.suppliers = {} /\ addSupplier(NewSupplier, F)
  \/ \E F \in ReadFailures : launchCampaign("c1", F)

SpecReload == InitStock /\ [][NextReload]_vars

\* a step whose reload has the read `name` answered with an error
C29_FailedReload(name) ==
  \/ InitialLoad({ReadCall(name)})
  \/ \E n \in {0, MaxStock} : updateIngredientStock(1, n, {ReadCall(name)})
  \/ \E sales \in OneSale : processDailySales(sales, {ReadCall(name)})
  \/ addSupplier(NewSupplier, {ReadCall(name)})
  \/ launchCampaign("c1", {ReadCall(name)})

\* C29: when one read of a reload fails, no raw collection of the snapshot
\* is replaced (and the selected outlet stays), and loading is false
\* afterwards.
C29_FailedReloadKeepsSnapshot ==
  [][\A name \in Reads : C29_FailedReload(name) => (UNCHANGED memVars /\ ~loading')]_vars

\* a write was stored, its reload failed, and the snapshot still is the
\* loaded one, behind the store in more than one table
C29_Witness ==
  /\ ret.reloaded /\ ret.err /\ ret.op = "processDailySales"
  /\ ~loading
  /\ allIngredients # {}
  /\ allIngredients # getIngredients(db)
  /\ allSalesHistory # getSalesHistory(db)
  /\ suppliers # getSuppliers(db)

(***************************************************************************)
(* ConnectionStatus: the banner that follows the browser's online and      *)
(* offline events.                                                         *)
(***************************************************************************)
PendingHideTimers == SeqSum([k \in 1..(HideDelay + 1) |-> hideTimers[k - 1]])

\* the hook's cells and the store, which the component never touches
hookVars == <<db, memVars, loading, today, timeOfDay, dateRange, readNotifications, ret>>

\* the browser comes back: 'online' is dispatched to handleOnline
handleOnline ==
  /\ ~navigatorOnLine
  /\ PendingHideTimers < MaxHideTimers
  /\ navigatorOnLine' = TRUE
  /\ isOnline' = TRUE
  /\ showStatus' = TRUE
  /\ hideTimers' = [hideTimers EXCEPT ![HideDelay] = @ + 1]
  /\ UNCHANGED hookVars

\* the browser loses the network: 'offline' is dispatched to handleOffline
handleOffline ==
  /\ navigatorOnLine
  /\ navigatorOnLine' = FALSE
  /\ isOnline' = FALSE
  /\ showStatus' = TRUE
  /\ UNCHANGED <<hideTimers, hookVars>>

\* a second passes; a timer that is due may still be waiting for its turn
SecondPasses ==
  /\ PendingHideTimers > 0
  /\ hideTimers' = [r \in 0..HideDelay |->
                      IF r = HideDelay THEN 0
                      ELSE hideTimers[r + 1] + (IF r = 0 THEN hideTimers[0] ELSE 0)]
  /\ UNCHANGED <<navigatorOnLine, isOnline, showStatus, hookVars>>

\* () => setShowStatus(false), run for a timer that is due
hideTimerFires ==
  /\ hideTimers[0] > 0
  /\ hideTimers' = [hideTimers EXCEPT ![0] = @ - 1]
  /\ showStatus' = FALSE
  /\ UNCHANGED <<navigatorOnLine, isOnline, hookVars>>

\* (mutant) the banner is rendered only while showStatus is set
ConnectionStatusRendered_WhileShown == showStatus

\* if (!showStatus && isOnline) return null
ConnectionStatusRendered == ~(~showStatus /\ isOnline)

InitConnection ==
  /\ HookCells
  /\ db = EmptyDb
  /\ \E online \in BOOLEAN : ConnectionStatusStart(online)

NextConnection ==
  \/ handleOnline
  \/ handleOffline
  \/ SecondPasses
  \/ hideTimerFires

SpecConnection == InitConnection /\ [][NextConnection]_vars

\* C30: however online events, offline events and hide timers interleave,
\* the banner is rendered whenever the browser is offline; it is hidden only
\* while the browser is online.
C30_BannerWhileOffline ==
  /\ ~navigatorOnLine => ConnectionStatusRendered
  /\ ~ConnectionStatusRendered => navigatorOnLine

\* offline, with showStatus reset by a timer of an earlier online event and
\* another such timer still pending
C30_Witness ==
  /\ ~navigatorOnLine
  /\ ~showStatus
  /\ PendingHideTimers > 0
  /\ ConnectionStatusRendered

=============================================================================
